---- MODULE Spec2Model ----
(***************************************************************************)
(* shelld: a persistent shell behind an HTTP controller.                   *)
(*                                                                         *)
(* The model has three layers, each translated from the source:            *)
(*   - the session engine (internal/shell/shell.go): Start, Execute, Kill, *)
(*     Unlock, Output, State and the background reader readUntilMarker.    *)
(*     Every critical section of shell.mu is one atomic step; the places   *)
(*     where the mutex is released inside an operation are step borders.   *)
(*   - the session controller (cmd/shelld/main.go): the two key gates, the *)
(*     handlers and the signal goroutine that runs the shutdown path.      *)
(*   - the environment: the child shell behind the pseudo-terminal, which  *)
(*     emits, for each wrapped command, the start marker line, the output, *)
(*     the blank line of the bare echo and the end marker line.            *)
(*                                                                         *)
(* Terminal bytes are modelled as tokens: one token stands for one line of *)
(* terminal text (the echoed command line, a marker line, an output line). *)
(***************************************************************************)
EXTENDS Integers, Sequences, FiniteSets, TLC

\* Number of events from outside (HTTP requests, termination signals) after
\* the initial state.
MaxReqs == 2

\* Request threads of the transport (one goroutine per in-flight request).
Threads == {1, 2}

\* Values of the X-Shell-Key header; "" is a missing header.
Keys == {"A", "B"}

VARIABLES
  dieOnUnlock,     \* cfg.Server.DieOnUnlock
  locking,         \* per thread of execution: the lock operations it has
                   \* still to make in its current activity, and the locks
                   \* it holds
  cfg,             \* cfg.Timeout: CommandDuration, CommandMaximumDuration
                   \* and IdleDuration, in units of time
  key,             \* serverInstance.key, "" when no key is bound
  now,             \* the time, in units of time
  lastActivity,    \* serverInstance.lastActivity
  shutPc,          \* position of the signal goroutine of main: "wait",
                   \* "signalled" (SIGTERM raised, not yet received),
                   \* "hook" (received), "unlock" (unlock hook ended),
                   \* "http" (engine unlocked), "exited"
  th,              \* request threads: position, presented key, locals, and
                   \* (mine) what the reader of its own command extracted
  resp,            \* the response written by the step just taken, if any
  nReqs,           \* requests and signals that may still arrive
  state,           \* Shell.state
  cmd,             \* Shell.cmd: id of the child process, 0 for nil
  ptyFile,         \* Shell.ptyFile: id of the open pty master, 0 for nil
  outputBuffer,    \* Shell.outputBuffer
  lastOutput,      \* Shell.lastOutput
  commandDone,     \* Shell.commandDone: id of the channel, 0 for nil
  currentCommand,  \* Shell.currentCommand
  startMarker,     \* Shell.startMarker (the marker id)
  endMarker,       \* Shell.endMarker (the marker id)
  chans,           \* content of every completion channel made so far
  readers,         \* the readUntilMarker goroutines, one slot per command:
                   \* position, locals, and two records kept for the
                   \* properties (stale: its session was torn down;
                   \* timedOut: its caller's deadline expired)
  child,           \* the child shell behind the current pty: alive, the
                   \* bursts it has still to print, and two records kept
                   \* for the properties: (unreaped) the child processes
                   \* spawned and not waited for, and (killed) the last
                   \* command a Kill was aimed at
  ptyOut           \* tokens waiting to be read from the current pty master

engineVars == <<state, cmd, ptyFile, outputBuffer, lastOutput, commandDone,
                currentCommand, startMarker, endMarker>>
readerVars == <<chans, readers>>
envVars    == <<child, ptyOut>>
ctlVars    == <<dieOnUnlock, locking, cfg, key, shutPc, now, lastActivity>>
vars == <<dieOnUnlock, locking, cfg, key, shutPc, now, lastActivity, th, resp, nReqs, state, cmd, ptyFile,
          outputBuffer, lastOutput, commandDone, currentCommand, startMarker,
          endMarker, chans, readers, child, ptyOut>>

---------------------------------------------------------------------------
(* Constants of the program *)

StateAvailable     == "available"
StateLocked        == "locked"
StateExecuting     == "executing"
StateUnrecoverable == "unrecoverable"
States == {StateAvailable, StateLocked, StateExecuting, StateUnrecoverable}

Tok(kind, id) == [kind |-> kind, id |-> id]

\* What the child shell prints for the wrapped command with marker id `id`,
\* in the bursts in which it reaches the pty: the start marker line and the
\* command's output, then the blank line of the bare echo and the end marker.
WrappedOutput(id) ==
  << <<Tok("start", id), Tok("out", id)>>, <<Tok("nl", id), Tok("end", id)>> >>

\* The terminal's echo of the wrapped command line.
WrappedEcho(id) == Tok("echo", id)

\* The X-Command-Timeout header of a request: absent (or empty), a text
\* time.ParseDuration rejects, or a duration of d units of time.
NoOverride  == [kind |-> "none", d |-> 0]
Malformed   == [kind |-> "bad", d |-> 0]
Override(d) == [kind |-> "duration", d |-> d]

NoChild  == [alive |-> FALSE, pending |-> <<>>, killed |-> 0, unreaped |-> 0]
NoReader == [pc |-> "none", em |-> 0, chunk |-> <<>>, val |-> "", stale |-> FALSE,
             timedOut |-> FALSE]
NoVal    == <<Tok("none", 0)>>
Idle     == [pc |-> "idle", key |-> "", ch |-> 0, val |-> "", id |-> 0,
             header |-> NoOverride, timeout |-> 0, until |-> 0, mine |-> NoVal]
NoResp   == [t |-> 0, ep |-> "", key |-> "", header |-> NoOverride, id |-> 0,
             status |-> 0, body |-> <<>>, st |-> ""]

\* The threads of execution that take locks: the request threads, the idle
\* watchdog, the signal goroutine and the reader goroutine.
Watchdog == -1
SignalGoroutine == -2
Reader == -3
Actors == Threads \cup {Watchdog, SignalGoroutine, Reader}

\* No lock operation pending or under way, no lock held.
NoLocking == [a \in Actors |-> [prog |-> <<>>, held |-> {}]]

Min(S) == CHOOSE x \in S : \A y \in S : x <= y

Running == shutPc # "exited"

---------------------------------------------------------------------------
(* Pure functions of the engine *)

\* bytes.Contains( bufferBytes, "\n" + endMarker + "\r\n" ): the end marker
\* as an output line of its own.  The echoed command line holds the marker
\* inside quotes and is a different token.
ContainsEndMarkerOutput(buf, em) ==
  \E i \in 1..Len(buf) : buf[i] = Tok("end", em)

\* strings.Index( output, shell.endMarker ): the bare marker string, which
\* also occurs inside the echoed command line of the same command.
HoldsEndMarker(tok, em) == tok.id = em /\ tok.kind \in {"end", "echo"}

\* The line clean-up of extractOutput: the blank line is dropped.
CleanLines(lines) == SelectSeq(lines, LAMBDA l : l.kind # "nl")

extractOutput(buf, sm, em) ==
  LET starts == {i \in 1..Len(buf) : buf[i] = Tok("start", sm)} IN
  IF starts = {} THEN <<>>
  ELSE LET rest == SubSeq(buf, Min(starts) + 1, Len(buf))
           ends == {j \in 1..Len(rest) : HoldsEndMarker(rest[j], em)}
       IN IF ends = {} THEN <<>>
          ELSE CleanLines(SubSeq(rest, 1, Min(ends) - 1))

---------------------------------------------------------------------------
(* Request threads *)

Goto(t, p) == th' = [th EXCEPT ![t].pc = p] /\ resp' = NoResp

\* The handler of thread t writes its response (status, output body, state
\* body) and the request thread ends.
Respond(t, ep, status, body, st) ==
  /\ resp' = [t |-> t, ep |-> ep, key |-> th[t].key, header |-> th[t].header,
              id |-> th[t].id, status |-> status, body |-> body, st |-> st]
  /\ th' = [th EXCEPT ![t] = Idle]

\* A gate that writes its error response and does not return: the handler
\* behind it runs all the same.
Refuse_NoReturn(t, ep, k, status) ==
  /\ resp' = [NoResp EXCEPT !.t = t, !.ep = ep, !.key = k, !.status = status]
  /\ th' = [th EXCEPT ![t] = [Idle EXCEPT !.pc = ep, !.key = k]]

\* A request is answered by the gate in the step in which it arrives.
Refuse(t, ep, k, status) ==
  /\ resp' = [NoResp EXCEPT !.t = t, !.ep = ep, !.key = k, !.status = status]
  /\ UNCHANGED th

\* handleExecute turns a request away for its body or its X-Command-Timeout
\* header before it calls the engine.
BadRequest(t, k, header) ==
  /\ resp' = [NoResp EXCEPT !.t = t, !.ep = "execute", !.key = k,
                            !.header = header, !.status = 400]
  /\ UNCHANGED th

\* A request passes the gate and its handler starts at position p.
Admit(t, k, p) ==
  /\ resp' = NoResp
  /\ th' = [th EXCEPT ![t] = [Idle EXCEPT !.pc = p, !.key = k]]

\* A request arrives on a free request thread.  The threads are
\* interchangeable goroutines, so the lowest free one takes it.
CanArrive(t) ==
  /\ Running
  /\ th[t].pc = "idle"
  /\ \A u \in Threads : th[u].pc = "idle" => t <= u
  /\ nReqs > 0

---------------------------------------------------------------------------
(* Session engine: Start *)

\* A failed pty.Start that leaves the state as it is.
StartSpawnFails_StaysAvailable ==
  UNCHANGED <<state, cmd, ptyFile, outputBuffer, child, ptyOut>>

\* pty.Start fails: no child, no pty.
StartSpawnFails ==
  /\ state' = StateUnrecoverable
  /\ UNCHANGED <<cmd, ptyFile, outputBuffer, child, ptyOut>>

\* The child is spawned but the readiness marker is not observed (read
\* error or 30 s deadline): cleanup() closes the pty and drops the handles.
StartReadinessFails ==
  /\ ptyFile' = 0
  /\ cmd' = 0
  /\ outputBuffer' = <<>>
  /\ state' = StateUnrecoverable
  /\ child' = [NoChild EXCEPT !.unreaped = child.unreaped + 1]
  /\ ptyOut' = <<>>

\* The readiness marker is observed.
StartSucceeds ==
  /\ cmd' = 1
  /\ ptyFile' = 1
  /\ outputBuffer' = <<>>
  /\ state' = StateLocked
  /\ child' = [alive |-> TRUE, pending |-> <<>>, killed |-> 0,
                unreaped |-> child.unreaped + 1]
  /\ ptyOut' = <<>>

---------------------------------------------------------------------------
(* Session engine: Execute *)

\* Execute outside locked that writes the command to the pty all the same.
ExecuteRejects_Queued ==
  /\ state # StateLocked
  /\ ptyOut' = Append(ptyOut, WrappedEcho(0))
  /\ UNCHANGED engineVars
  /\ UNCHANGED readerVars
  /\ UNCHANGED child

\* The guard of Execute: any state other than locked is rejected.
ExecuteRejects ==
  /\ state # StateLocked
  /\ UNCHANGED engineVars
  /\ UNCHANGED readerVars
  /\ UNCHANGED envVars

\* The write of the wrapped command to the pty master.  (*os.File)(nil).Write
\* returns an error; a write to an open master succeeds, and a live child
\* echoes the line and will run it.
WriteWrapped(id) ==
  IF child.alive
    THEN /\ ptyOut' = Append(ptyOut, WrappedEcho(id))
         /\ child' = [child EXCEPT !.pending = @ \o WrappedOutput(id)]
    ELSE UNCHANGED <<ptyOut, child>>

\* Execute from state locked, up to the release of the mutex.
ExecuteAccepts(command) ==
  LET id == Len(chans) + 1 IN
  /\ state = StateLocked
  /\ outputBuffer' = <<>>
  /\ lastOutput' = <<>>
  /\ currentCommand' = command
  /\ commandDone' = id
  /\ chans' = Append(chans, "empty")
  /\ startMarker' = id
  /\ endMarker' = id
  /\ UNCHANGED <<cmd, ptyFile>>
  /\ IF ptyFile = 0
       THEN /\ state' = StateUnrecoverable
            /\ readers' = Append(readers, NoReader)
            /\ UNCHANGED <<ptyOut, child>>
       ELSE /\ state' = StateExecuting
            /\ WriteWrapped(id)
            /\ readers' = Append(readers, [NoReader EXCEPT !.pc = "init"])

\* The completion branch of the select, after the mutex is taken again.
ExecuteCompletes(t) ==
  /\ state' = IF th[t].val = "err" THEN StateUnrecoverable ELSE StateLocked
  /\ UNCHANGED <<cmd, ptyFile, outputBuffer, lastOutput, commandDone,
                 currentCommand, startMarker, endMarker>>

---------------------------------------------------------------------------
(* Session engine: Kill and Unlock *)

\* A burst of pending output without the command output of command id.
Silenced(burst, id) ==
  SelectSeq(burst, LAMBDA tok : ~(tok.id = id /\ tok.kind = "out"))

\* What the ETX byte does to the child: nothing (it comes too late), the
\* running command is interrupted and prints nothing more, or the shell
\* abandons the whole command line including the echo of the end marker.
Interrupted(pending) ==
  IF pending = <<>> THEN {pending}
  ELSE LET id == pending[1][1].id IN
       { pending,
         [i \in 1..Len(pending) |-> Silenced(pending[i], id)],
         SelectSeq(pending, LAMBDA b : b[1].id # id) }

\* The command the ETX byte is aimed at: the one executing when Kill is
\* called, else the one noted before (a record kept for the properties).
KilledCommand == IF state = StateExecuting THEN endMarker ELSE child.killed

\* A Kill that puts an executing engine back to locked itself.
Kill_Relocks ==
  /\ state' = IF state = StateExecuting THEN StateLocked ELSE state
  /\ UNCHANGED <<cmd, ptyFile, outputBuffer, lastOutput, commandDone,
                 currentCommand, startMarker, endMarker>>
  /\ UNCHANGED ptyOut
  /\ IF ptyFile = 0
       THEN UNCHANGED child
       ELSE \E p \in Interrupted(child.pending) :
              child' = [child EXCEPT !.pending = p, !.killed = KilledCommand]

Kill ==
  /\ UNCHANGED engineVars
  /\ UNCHANGED ptyOut
  /\ IF ptyFile = 0
       THEN UNCHANGED child
       ELSE \E p \in Interrupted(child.pending) :
              child' = [child EXCEPT !.pending = p, !.killed = KilledCommand]

Unlock ==
  /\ state' = StateAvailable
  /\ UNCHANGED <<lastOutput, commandDone, currentCommand, startMarker, endMarker>>
  /\ IF cmd = 0
       THEN UNCHANGED <<cmd, ptyFile, outputBuffer, child, ptyOut, readers>>
       ELSE /\ readers' = [r \in DOMAIN readers |->
                             IF readers[r].pc = "none" THEN readers[r]
                             ELSE [readers[r] EXCEPT !.stale = TRUE]]
            /\ ptyFile' = 0
            /\ cmd' = 0
            /\ outputBuffer' = <<>>
            /\ child' = [NoChild EXCEPT !.unreaped = child.unreaped - 1]
            /\ ptyOut' = <<>>

---------------------------------------------------------------------------
(* Session controller: the key gates *)

\* updateActivity: the value of time.Now() stored in server.lastActivity.
UpdateActivity == now

\* A bind-or-match that binds the presented key over a bound one.
SetKeyMiddleware_Rebinds(t, k) ==
  /\ CanArrive(t)
  /\ nReqs' = nReqs - 1
  /\ IF k = ""
       THEN /\ Refuse(t, "lock", k, 401)
            /\ UNCHANGED key
       ELSE /\ key' = k
            /\ Admit(t, k, "lock")
  /\ lastActivity' = IF k = "" THEN lastActivity ELSE now
  /\ UNCHANGED <<dieOnUnlock, locking, cfg, now, shutPc>>
  /\ UNCHANGED <<engineVars, readerVars, envVars>>

\* A bind-or-match that does not compare the presented key with the bound one.
SetKeyMiddleware_NoCompare(t, k) ==
  /\ CanArrive(t)
  /\ nReqs' = nReqs - 1
  /\ IF k = ""
       THEN /\ Refuse(t, "lock", k, 401)
            /\ UNCHANGED key
       ELSE /\ key' = IF key = "" THEN k ELSE key
            /\ Admit(t, k, "lock")
  /\ lastActivity' = IF k = "" THEN lastActivity ELSE now
  /\ UNCHANGED <<dieOnUnlock, locking, cfg, now, shutPc>>
  /\ UNCHANGED <<engineVars, readerVars, envVars>>

\* setKeyMiddleware: bind-or-match under keyMutex.Lock, in front of /lock.
\* handleLock then runs the lock hook (a helper shell, no shared data).
SetKeyMiddleware(t, k) ==
  LET bound == IF key = "" THEN k ELSE key IN
  /\ CanArrive(t)
  /\ nReqs' = nReqs - 1
  /\ IF k = ""
       THEN /\ Refuse(t, "lock", k, 401)
            /\ UNCHANGED key
       ELSE /\ key' = bound
            /\ IF k = bound THEN Admit(t, k, "lock") ELSE Refuse(t, "lock", k, 401)
  /\ lastActivity' = IF k # "" /\ k = bound THEN UpdateActivity ELSE lastActivity
  /\ UNCHANGED <<dieOnUnlock, locking, cfg, now, shutPc>>
  /\ UNCHANGED <<engineVars, readerVars, envVars>>

\* A match gate without the test for an unbound key.
VerifyStatus_NoUnboundTest(k) ==
  IF k = "" THEN 401
  ELSE IF k # key THEN 401
  ELSE 0

\* The status verifyKeyMiddleware answers with, 0 when the request passes.
VerifyStatus(k) ==
  IF k = "" THEN 401
  ELSE IF key = "" THEN 409
  ELSE IF k # key THEN 401
  ELSE 0

\* A handleExecute that does not cap the override at the maximum.
EffectiveTimeout_NoCap(header) ==
  IF header.kind = "none" THEN cfg.commandDuration
  ELSE IF header.d > 0 THEN header.d ELSE cfg.commandDuration

\* The timeout handleExecute passes to Execute for a header that parses.
EffectiveTimeout(header) ==
  IF header.kind = "none" THEN cfg.commandDuration
  ELSE LET parsedTimeout == IF header.d > cfg.commandMaximumDuration
                              THEN cfg.commandMaximumDuration
                              ELSE header.d
       IN IF parsedTimeout > 0 THEN parsedTimeout ELSE cfg.commandDuration

\* verifyKeyMiddleware in front of every other keyed endpoint.  For /execute
\* the handler's own validation of the body and of X-Command-Timeout, which
\* touches no shared data, is part of the same step.
VerifyKeyMiddleware(t, ep, k, bodyOk, header) ==
  LET gate == VerifyStatus(k) IN
  /\ CanArrive(t)
  /\ nReqs' = nReqs - 1
  /\ IF gate # 0 THEN Refuse(t, ep, k, gate)
     ELSE IF ep # "execute" THEN Admit(t, k, ep)
     ELSE IF ~bodyOk \/ header.kind = "bad" THEN BadRequest(t, k, header)
     ELSE /\ resp' = NoResp
          /\ th' = [th EXCEPT ![t] = [Idle EXCEPT !.pc = ep, !.key = k,
                                        !.header = header,
                                        !.timeout = EffectiveTimeout(header)]]
  /\ lastActivity' = IF gate = 0 THEN UpdateActivity ELSE lastActivity
  /\ UNCHANGED <<dieOnUnlock, locking, cfg, key, shutPc, now>>
  /\ UNCHANGED <<engineVars, readerVars, envVars>>

\* GET /health has no gate.
HandleHealth(t) ==
  /\ CanArrive(t)
  /\ nReqs' = nReqs - 1
  /\ Refuse(t, "health", "", 200)
  /\ UNCHANGED ctlVars
  /\ UNCHANGED <<engineVars, readerVars, envVars>>

---------------------------------------------------------------------------
(* Session controller: /lock *)

\* Start returns an error after it has passed its guard and changed the
\* state: handleLock goes on to read shell.State().  The thread is marked
\* (a record kept for the properties; the program has no such field).
StartReturnsError(t) ==
  /\ th' = [th EXCEPT ![t] = [@ EXCEPT !.pc = "lock_state", !.val = "started"]]
  /\ resp' = NoResp

\* What Hooks.run did with a hook command: nothing because the command is
\* empty, or it ran the helper shell and cmd.Run returned nil, or it
\* returned an error (the helper could not be spawned, exited non-zero or
\* was killed with its context).  The error is logged and dropped.  The
\* outcome is kept in the thread for the properties; the program keeps none.
HookOutcomes == {"hook_noop", "hook_ok", "hook_err"}

\* A handleLock for which a failed lock hook is fatal: it answers 500 and
\* does not start the engine.
HandleLockHook_Fatal(t) ==
  /\ Running
  /\ th[t].pc = "lock"
  /\ \/ /\ \E o \in {"hook_noop", "hook_ok"} :
             th' = [th EXCEPT ![t] = [@ EXCEPT !.pc = "lock_start", !.val = o]]
        /\ resp' = NoResp
     \/ Respond(t, "lock", 500, <<>>, "")
  /\ UNCHANGED <<ctlVars, nReqs, engineVars, readerVars, envVars>>

\* handleLock: server.hooks.RunLock, which returns when the helper shell
\* has ended.
HandleLockHook(t) ==
  /\ Running
  /\ th[t].pc = "lock"
  /\ \E o \in HookOutcomes :
       th' = [th EXCEPT ![t] = [@ EXCEPT !.pc = "lock_start", !.val = o]]
  /\ resp' = NoResp
  /\ UNCHANGED <<ctlVars, nReqs, engineVars, readerVars, envVars>>

\* shell.Start(), one critical section of shell.mu.
HandleLockStart(t) ==
  /\ Running
  /\ th[t].pc = "lock_start"
  /\ UNCHANGED <<ctlVars, nReqs, readerVars>>
  /\ UNCHANGED <<lastOutput, commandDone, currentCommand, startMarker, endMarker>>
  /\ \/ /\ state # StateAvailable
        /\ UNCHANGED <<state, cmd, ptyFile, outputBuffer, child, ptyOut>>
        /\ Goto(t, "lock_state")
     \/ /\ state = StateAvailable
        /\ StartSpawnFails
        /\ StartReturnsError(t)
     \/ /\ state = StateAvailable
        /\ StartReadinessFails
        /\ StartReturnsError(t)
     \/ /\ state = StateAvailable
        /\ StartSucceeds
        /\ Respond(t, "lock", 200, <<>>, "")

\* The status handleLock derives from shell.State() after a failed Start.
LockErrorStatus(s) ==
  IF s \in {StateLocked, StateExecuting, StateUnrecoverable} THEN 409 ELSE 500

HandleLockState(t) ==
  /\ Running
  /\ th[t].pc = "lock_state"
  /\ Respond(t, "lock", LockErrorStatus(state), <<>>, "")
  /\ UNCHANGED <<ctlVars, nReqs, engineVars, readerVars, envVars>>

---------------------------------------------------------------------------
(* Session controller: /execute *)

\* shell.Execute up to the release of the mutex.
HandleExecuteBegin(t) ==
  /\ Running
  /\ th[t].pc = "execute"
  /\ UNCHANGED <<ctlVars, nReqs>>
  /\ resp' = NoResp
  /\ \/ /\ ExecuteRejects
        /\ th' = [th EXCEPT ![t].pc = "exec_state"]
     \/ /\ ExecuteAccepts("c")
        /\ th' = [th EXCEPT ![t] =
                    [@ EXCEPT !.id = Len(chans) + 1,
                              !.pc = IF ptyFile = 0 THEN "exec_state" ELSE "exec_select"]]

\* The select statement evaluates shell.commandDone (outside the mutex) and
\* time.After( timeout ), whose timer runs from now.
ExecuteSelect(t) ==
  /\ Running
  /\ th[t].pc = "exec_select"
  /\ th' = [th EXCEPT ![t] = [@ EXCEPT !.pc = "exec_wait", !.ch = commandDone,
                                       !.until = now + th[t].timeout]]
  /\ resp' = NoResp
  /\ UNCHANGED <<ctlVars, nReqs, engineVars, readerVars, envVars>>

\* case err := <-shell.commandDone
ExecuteReceive(t) ==
  /\ Running
  /\ th[t].pc = "exec_wait"
  /\ chans[th[t].ch] # "empty"
  /\ th' = [th EXCEPT ![t] = [@ EXCEPT !.pc = "exec_got", !.val = chans[th[t].ch]]]
  /\ resp' = NoResp
  /\ chans' = [chans EXCEPT ![th[t].ch] = "empty"]
  /\ UNCHANGED <<ctlVars, nReqs, engineVars, readers, envVars>>

\* case <-time.After( timeout ): handleExecute answers 202.  The reader of
\* the command, if it still runs, is marked (a record kept for the
\* properties; the program tells the reader nothing).
ExecuteTimeout(t) ==
  /\ Running
  /\ th[t].pc = "exec_wait"
  /\ Respond(t, "execute", 202, <<>>, "")
  /\ readers' = [readers EXCEPT ![th[t].id].timedOut = (readers[th[t].id].pc # "none")]
  /\ UNCHANGED <<ctlVars, nReqs, engineVars, chans, envVars>>

\* The completion branch: the mutex is taken again, the state is written.
ExecuteFinish(t) ==
  /\ Running
  /\ th[t].pc = "exec_got"
  /\ ExecuteCompletes(t)
  /\ IF th[t].val = "err"
       THEN /\ th' = [th EXCEPT ![t] = [@ EXCEPT !.pc = "exec_state", !.ch = 0, !.val = ""]]
            /\ resp' = NoResp
       ELSE Respond(t, "execute", 200, lastOutput, "")
  /\ UNCHANGED <<ctlVars, nReqs, readerVars, envVars>>

\* The status handleExecute derives from shell.State() after an error
\* other than ErrTimeout.
ExecuteErrorStatus(s) ==
  IF s \in {StateAvailable, StateExecuting, StateUnrecoverable} THEN 409 ELSE 500

HandleExecuteState(t) ==
  /\ Running
  /\ th[t].pc = "exec_state"
  /\ Respond(t, "execute", ExecuteErrorStatus(state), <<>>, "")
  /\ UNCHANGED <<ctlVars, nReqs, engineVars, readerVars, envVars>>

---------------------------------------------------------------------------
(* Session controller: /kill, /unlock, /output, /state *)

\* A /kill whose Kill writes to the pty without testing that one exists: the
\* write to a nil file fails and 500 is answered.
HandleKill_NoNilTest(t) ==
  /\ Running
  /\ th[t].pc = "kill"
  /\ Kill
  /\ Respond(t, "kill", IF ptyFile = 0 THEN 500 ELSE 200, <<>>, "")
  /\ UNCHANGED <<ctlVars, nReqs, readerVars>>

HandleKill(t) ==
  /\ Running
  /\ th[t].pc = "kill"
  /\ Kill
  /\ Respond(t, "kill", 200, <<>>, "")
  /\ UNCHANGED <<ctlVars, nReqs, readerVars>>

\* A shutdown-mode /unlock that answers 200 and raises no signal.
HandleUnlockDie_NoSignal(t) ==
  /\ Running
  /\ th[t].pc = "unlock"
  /\ dieOnUnlock
  /\ Respond(t, "unlock", 200, <<>>, "")
  /\ UNCHANGED <<ctlVars, nReqs, engineVars, readerVars, envVars>>

\* Shutdown mode: answer 200, then raise SIGTERM on the process itself.
HandleUnlockDie(t) ==
  /\ Running
  /\ th[t].pc = "unlock"
  /\ dieOnUnlock
  /\ Respond(t, "unlock", 200, <<>>, "")
  /\ shutPc' = IF shutPc = "wait" THEN "signalled" ELSE shutPc
  /\ UNCHANGED <<dieOnUnlock, locking, cfg, now, lastActivity, key,
                 nReqs, engineVars, readerVars, envVars>>

\* Recycle mode: server.hooks.RunUnlock, which returns when the helper
\* shell has ended.
HandleUnlockHook(t) ==
  /\ Running
  /\ th[t].pc = "unlock"
  /\ ~dieOnUnlock
  /\ \E o \in HookOutcomes :
       th' = [th EXCEPT ![t] = [@ EXCEPT !.pc = "unlock_shell", !.val = o]]
  /\ resp' = NoResp
  /\ UNCHANGED <<ctlVars, nReqs, engineVars, readerVars, envVars>>

\* Recycle mode: shell.Unlock().
HandleUnlockShell(t) ==
  /\ Running
  /\ th[t].pc = "unlock_shell"
  /\ Unlock
  /\ Goto(t, "unlock_key")
  /\ UNCHANGED <<ctlVars, nReqs, chans>>

\* Recycle mode: the key is cleared under keyMutex.Lock and 200 is answered.
HandleUnlockKey(t) ==
  /\ Running
  /\ th[t].pc = "unlock_key"
  /\ key' = ""
  /\ Respond(t, "unlock", 200, <<>>, "")
  /\ UNCHANGED <<dieOnUnlock, locking, cfg, now, lastActivity, shutPc,
                 nReqs, engineVars, readerVars, envVars>>

HandleOutput(t) ==
  /\ Running
  /\ th[t].pc = "output"
  /\ Respond(t, "output", 200, lastOutput, "")
  /\ UNCHANGED <<ctlVars, nReqs, engineVars, readerVars, envVars>>

HandleState(t) ==
  /\ Running
  /\ th[t].pc = "state"
  /\ Respond(t, "state", 200, <<>>, state)
  /\ UNCHANGED <<ctlVars, nReqs, engineVars, readerVars, envVars>>

---------------------------------------------------------------------------
(* Session engine: the reader goroutine readUntilMarker *)

ReaderIds == {r \in 1..Len(readers) : readers[r].pc # "none"}

SetReader(r, rec) == readers' = [readers EXCEPT ![r] = rec]

\* endMarkerOutput := "\n" + shell.endMarker + "\r\n", read outside the mutex.
ReaderInit(r) ==
  /\ Running
  /\ readers[r].pc = "init"
  /\ SetReader(r, [readers[r] EXCEPT !.pc = "read", !.em = endMarker])
  /\ resp' = NoResp
  /\ UNCHANGED <<ctlVars, th, nReqs, engineVars, chans, envVars>>

\* The head of the loop and ptyFile.Read( buf ).  With no pty left the
\* reader gives up; a pty that Unlock closed under a blocked Read fails the
\* Read, which is the same step taken while the handle is still nil.  An
\* open pty returns what the child has printed, fails once the child is gone
\* and nothing is left, and blocks otherwise.
ReaderRead(r) ==
  /\ Running
  /\ readers[r].pc = "read"
  /\ IF ptyFile = 0
       THEN /\ SetReader(r, [readers[r] EXCEPT !.pc = "send", !.val = "err"])
            /\ UNCHANGED ptyOut
       ELSE IF ptyOut # <<>>
         THEN /\ SetReader(r, [readers[r] EXCEPT !.pc = "process", !.chunk = ptyOut])
              /\ ptyOut' = <<>>
         ELSE /\ ~child.alive
              /\ SetReader(r, [readers[r] EXCEPT !.pc = "send", !.val = "err"])
              /\ UNCHANGED ptyOut
  /\ resp' = NoResp
  /\ UNCHANGED <<ctlVars, th, nReqs, engineVars, chans, child>>

\* The reader of command r stored `out` as that command's output: the
\* request thread that started r, if it still runs, is told (a record kept
\* for the properties; the program has no such field).
NoteExtracted(r, out) ==
  th' = [t \in Threads |-> IF th[t].id = r THEN [th[t] EXCEPT !.mine = out] ELSE th[t]]

\* Under the mutex: append the chunk, look for the end marker line, and on
\* a match store the extracted output and set the state to locked.
ReaderProcess(r) ==
  LET buf == outputBuffer \o readers[r].chunk IN
  /\ Running
  /\ readers[r].pc = "process"
  /\ outputBuffer' = buf
  /\ IF ContainsEndMarkerOutput(buf, readers[r].em)
       THEN /\ lastOutput' = extractOutput(buf, startMarker, endMarker)
            /\ state' = StateLocked
            /\ NoteExtracted(r, extractOutput(buf, startMarker, endMarker))
            /\ SetReader(r, [readers[r] EXCEPT !.pc = "send", !.val = "nil", !.chunk = <<>>])
       ELSE /\ UNCHANGED <<lastOutput, state, th>>
            /\ SetReader(r, [readers[r] EXCEPT !.pc = "read", !.chunk = <<>>])
  /\ UNCHANGED <<cmd, ptyFile, commandDone, currentCommand, startMarker, endMarker>>
  /\ resp' = NoResp
  /\ UNCHANGED <<ctlVars, nReqs, chans, envVars>>

\* shell.commandDone <- value: the field is read when the send is made; the
\* send blocks while the one slot of that channel is taken.
ReaderSend(r) ==
  /\ Running
  /\ readers[r].pc = "send"
  /\ chans[commandDone] = "empty"
  /\ chans' = [chans EXCEPT ![commandDone] = readers[r].val]
  /\ SetReader(r, NoReader)
  /\ resp' = NoResp
  /\ UNCHANGED <<ctlVars, th, nReqs, engineVars, envVars>>

---------------------------------------------------------------------------
(* Environment: the child shell *)

\* The child prints the next burst of its pending output.
ChildEmit ==
  /\ Running
  /\ child.alive
  /\ child.pending # <<>>
  /\ ptyOut' = ptyOut \o Head(child.pending)
  /\ child' = [child EXCEPT !.pending = Tail(@)]
  /\ resp' = NoResp
  /\ UNCHANGED <<ctlVars, th, nReqs, engineVars, readerVars>>

\* The child shell exits while it runs a command (the command was `exit`,
\* or the shell crashed); what it had not printed yet is lost.
ChildDies ==
  /\ Running
  /\ child.alive
  /\ child.pending # <<>>
  /\ child' = [NoChild EXCEPT !.unreaped = child.unreaped]
  /\ resp' = NoResp
  /\ UNCHANGED <<ctlVars, th, nReqs, engineVars, readerVars, ptyOut>>

---------------------------------------------------------------------------
(* The signal goroutine of main: the shutdown path *)

\* The signal goroutine receives from shutdownChannel and cancels the
\* context of the watchdog.
SignalReceived ==
  /\ shutPc' = "hook"
  /\ resp' = NoResp
  /\ UNCHANGED <<dieOnUnlock, locking, cfg, now, lastActivity, key, th,
                 engineVars, readerVars, envVars>>

\* SIGINT or SIGTERM from outside the process.
Signal ==
  /\ shutPc = "wait"
  /\ nReqs > 0
  /\ nReqs' = nReqs - 1
  /\ SignalReceived

\* The SIGTERM the process raised on itself (shutdown-mode /unlock, idle
\* watchdog) is delivered.
ShutdownUnlock ==
  /\ shutPc = "signalled"
  /\ UNCHANGED nReqs
  /\ SignalReceived

\* A signal goroutine that unlocks the engine while it runs the unlock hook.
ShutdownHook_Unlocks ==
  /\ shutPc = "hook"
  /\ Unlock
  /\ shutPc' = "unlock"
  /\ resp' = NoResp
  /\ UNCHANGED <<dieOnUnlock, locking, cfg, now, lastActivity, key, th, nReqs, chans>>

\* server.hooks.RunUnlock( shutdownCtx, server.key ) returns.
ShutdownHook ==
  /\ shutPc = "hook"
  /\ shutPc' = "unlock"
  /\ resp' = NoResp
  /\ UNCHANGED <<dieOnUnlock, locking, cfg, now, lastActivity, key, th,
                 nReqs, engineVars, readerVars, envVars>>

\* server.shell.Unlock() on the shutdown path.
ShutdownPath ==
  /\ shutPc = "unlock"
  /\ Unlock
  /\ shutPc' = "http"
  /\ resp' = NoResp
  /\ UNCHANGED <<dieOnUnlock, locking, cfg, now, lastActivity, key, th, nReqs, chans>>

\* httpServer.Shutdown: Serve returns, main returns and the process exits;
\* nothing of its memory remains.
ShutdownHttp ==
  /\ shutPc = "http"
  /\ shutPc' = "exited"
  /\ key' = ""
  /\ th' = [t \in Threads |-> Idle]
  /\ resp' = NoResp
  /\ state' = StateAvailable
  /\ cmd' = 0
  /\ ptyFile' = 0
  /\ outputBuffer' = <<>>
  /\ lastOutput' = <<>>
  /\ commandDone' = 0
  /\ currentCommand' = ""
  /\ startMarker' = 0
  /\ endMarker' = 0
  /\ chans' = <<>>
  /\ readers' = <<>>
  /\ child' = NoChild
  /\ ptyOut' = <<>>
  /\ lastActivity' = 0
  /\ UNCHANGED <<dieOnUnlock, locking, cfg, now, nReqs>>

---------------------------------------------------------------------------
(* Time and the idle watchdog *)

\* A unit of time passes.  Once the idle timeout is exceeded more time
\* shows the watchdog nothing new, so the clock is followed no further.
Tick ==
  /\ Running
  /\ now - lastActivity <= cfg.idleDuration
  /\ now' = now + 1
  /\ resp' = NoResp
  /\ UNCHANGED <<dieOnUnlock, locking, cfg, key, shutPc, lastActivity>>
  /\ UNCHANGED <<th, nReqs, engineVars, readerVars, envVars>>

\* A watchdog that raises SIGTERM at every tick.
MonitorIdleTimeout_NoTest ==
  /\ shutPc = "wait"
  /\ shutPc' = "signalled"
  /\ resp' = NoResp
  /\ UNCHANGED <<dieOnUnlock, locking, cfg, key, now, lastActivity>>
  /\ UNCHANGED <<th, nReqs, engineVars, readerVars, envVars>>

\* monitorIdleTimeout at a tick of its ticker, its context not cancelled:
\* idleDuration is read under activityMutex, and when it exceeds the idle
\* timeout the process raises SIGTERM on itself and the watchdog returns.
\* (A tick that finds the session active changes nothing.)
MonitorIdleTimeout ==
  /\ shutPc = "wait"
  /\ now - lastActivity > cfg.idleDuration
  /\ shutPc' = "signalled"
  /\ resp' = NoResp
  /\ UNCHANGED <<dieOnUnlock, locking, cfg, key, now, lastActivity>>
  /\ UNCHANGED <<th, nReqs, engineVars, readerVars, envVars>>

---------------------------------------------------------------------------
(* The specification *)

\* The state after construction (NewShell, main): no key, no shell.
InitFresh ==
  /\ key = ""
  /\ shutPc = "wait"
  /\ now = 0
  /\ lastActivity = 0
  /\ th = [t \in Threads |-> Idle]
  /\ resp = NoResp
  /\ state = StateAvailable
  /\ cmd = 0
  /\ ptyFile = 0
  /\ outputBuffer = <<>>
  /\ lastOutput = <<>>
  /\ commandDone = 0
  /\ currentCommand = ""
  /\ startMarker = 0
  /\ endMarker = 0
  /\ chans = <<>>
  /\ readers = <<>>
  /\ child = NoChild
  /\ ptyOut = <<>>

\* The state after a first POST /lock with key "A" was answered 200: the
\* key is bound and the shell runs (SetKeyMiddleware, then HandleLockStart
\* with StartSucceeds, from InitFresh).
InitLocked ==
  /\ key = "A"
  /\ shutPc = "wait"
  /\ now = 0
  /\ lastActivity = 0
  /\ th = [t \in Threads |-> Idle]
  /\ resp = NoResp
  /\ state = StateLocked
  /\ cmd = 1
  /\ ptyFile = 1
  /\ outputBuffer = <<>>
  /\ lastOutput = <<>>
  /\ commandDone = 0
  /\ currentCommand = ""
  /\ startMarker = 0
  /\ endMarker = 0
  /\ chans = <<>>
  /\ readers = <<>>
  /\ child = [alive |-> TRUE, pending |-> <<>>, killed |-> 0, unreaped |-> 1]
  /\ ptyOut = <<>>

\* The timeouts of the default configuration (5m, 30m, 30m) in units of
\* time: the command timeout is below the maximum and the idle timeout.
DefaultCfg == [commandDuration |-> 1, commandMaximumDuration |-> 2,
               idleDuration |-> 2]

Init ==
  /\ dieOnUnlock \in BOOLEAN
  /\ locking = NoLocking
  /\ cfg = DefaultCfg
  /\ nReqs = MaxReqs
  /\ InitFresh \/ InitLocked

VerifiedEndpoints == {"execute", "kill", "unlock", "output", "state"}

Next ==
  \/ \E t \in Threads, k \in Keys \cup {""} : SetKeyMiddleware(t, k)
  \/ \E t \in Threads, ep \in VerifiedEndpoints, k \in Keys \cup {""},
        bodyOk \in BOOLEAN, header \in {NoOverride, Malformed} :
          VerifyKeyMiddleware(t, ep, k, bodyOk, header)
  \/ \E t \in Threads : HandleHealth(t)
  \/ \E t \in Threads : HandleLockHook(t)
  \/ \E t \in Threads : HandleLockStart(t)
  \/ \E t \in Threads : HandleLockState(t)
  \/ \E t \in Threads : HandleExecuteBegin(t)
  \/ \E t \in Threads : ExecuteSelect(t)
  \/ \E t \in Threads : ExecuteReceive(t)
  \/ \E t \in Threads : ExecuteTimeout(t)
  \/ \E t \in Threads : ExecuteFinish(t)
  \/ \E t \in Threads : HandleExecuteState(t)
  \/ \E t \in Threads : HandleKill(t)
  \/ \E t \in Threads : HandleUnlockDie(t)
  \/ \E t \in Threads : HandleUnlockHook(t)
  \/ \E t \in Threads : HandleUnlockShell(t)
  \/ \E t \in Threads : HandleUnlockKey(t)
  \/ \E t \in Threads : HandleOutput(t)
  \/ \E t \in Threads : HandleState(t)
  \/ \E r \in ReaderIds : ReaderInit(r)
  \/ \E r \in ReaderIds : ReaderRead(r)
  \/ \E r \in ReaderIds : ReaderProcess(r)
  \/ \E r \in ReaderIds : ReaderSend(r)
  \/ ChildEmit
  \/ ChildDies
  \/ Signal
  \/ ShutdownUnlock
  \/ ShutdownHook
  \/ ShutdownPath
  \/ ShutdownHttp

Spec == Init /\ [][Next]_vars

---------------------------------------------------------------------------
(* Properties: the session engine *)

\* Thread t's Execute call returns success in this step (handleExecute then
\* answers 200 with the returned output).
ReturnsSuccess(t) ==
  /\ th[t].pc = "exec_got"
  /\ resp'.t = t
  /\ resp'.ep = "execute"
  /\ resp'.status = 200

\* Thread t's Execute call takes the rejecting branch of the guard in this
\* step: it leaves the guard while the state is not locked.
RejectedAtGuard(t) ==
  /\ th[t].pc = "execute"
  /\ th'[t].pc # "execute"
  /\ state # StateLocked
  /\ shutPc' # "exited"

\* C1 (single-flight): in every reachable state at most one execute-reader
\* (a readUntilMarker goroutine that has not returned) exists.
C1_SingleFlight == Cardinality(ReaderIds) <= 1

\* C2: an Execute called in a state other than locked returns an error and
\* is not queued: nothing is written to the pty, no reader and no channel is
\* made, and the state, the output buffer, the last output and the markers
\* are unchanged.
C2_ExecuteRejectedNotQueued ==
  [][\A t \in Threads : RejectedAtGuard(t) =>
        /\ th'[t].pc = "exec_state"
        /\ ExecuteErrorStatus(state') # 200
        /\ ptyOut' = ptyOut
        /\ child' = child
        /\ readers' = readers
        /\ chans' = chans
        /\ state' = state
        /\ outputBuffer' = outputBuffer
        /\ lastOutput' = lastOutput
        /\ startMarker' = startMarker
        /\ endMarker' = endMarker]_vars

\* C2 witness: an Execute was rejected at the guard (it carries no command
\* id) while another command is executing with its caller still waiting.
C2_Witness ==
  \E t, u \in Threads :
    /\ th[t].pc = "exec_state"
    /\ th[t].id = 0
    /\ th[u].pc = "exec_wait"
    /\ state = StateExecuting

\* C3 (output isolation): the output an Execute call returns is exactly the
\* output its own reader extracted for its command.
C3_OutputIsolation ==
  [][\A t \in Threads :
       (ReturnsSuccess(t) /\ th[t].mine # NoVal) => resp'.body = th[t].mine]_vars

\* C4: an Execute call returns success only after the reader spawned for its
\* own command has observed the end marker and extracted the output.
C4_OwnCompletionOnly ==
  [][\A t \in Threads : ReturnsSuccess(t) => th[t].mine # NoVal]_vars

\* Thread t's Execute call takes the timeout branch of the select in this
\* step: it leaves the wait without receiving from a channel.
TimesOut(t) ==
  /\ th[t].pc = "exec_wait"
  /\ th'[t].pc = "idle"
  /\ chans' = chans
  /\ shutPc' # "exited"

\* Reader r of the readers rs still looks for the end marker of a command
\* whose caller timed out, in the session that started it.
StillLooking(rs, r) ==
  /\ rs[r].timedOut
  /\ ~rs[r].stale
  /\ rs[r].pc \in {"init", "read", "process"}

\* Reader r finds its end marker in this step.
ObservesEndMarker(r) ==
  /\ readers[r].pc = "process"
  /\ readers'[r].pc = "send"
  /\ readers'[r].val = "nil"

\* C5: an Execute whose deadline expires before the end marker is observed
\* returns the timeout error (202) and changes neither the state nor the
\* reader; the state stays executing while the reader of the timed-out
\* command still looks for the end marker; when that reader observes the
\* marker the state becomes locked and the last output is the output of the
\* timed-out command.
C5_TimeoutKeepsExecuting ==
  [][/\ \A t \in Threads : (TimesOut(t) /\ th[t].mine = NoVal) =>
          /\ resp'.t = t
          /\ resp'.ep = "execute"
          /\ resp'.status = 202
          /\ state' = state
          /\ outputBuffer' = outputBuffer
          /\ lastOutput' = lastOutput
          /\ \A r \in 1..Len(readers) : readers'[r].pc = readers[r].pc
     /\ \A r \in 1..Len(readers') :
          StillLooking(readers', r) => state' = StateExecuting
     /\ \A r \in 1..Len(readers) :
          (StillLooking(readers, r) /\ ObservesEndMarker(r)) =>
             /\ state' = StateLocked
             /\ lastOutput' = extractOutput(outputBuffer', r, r)]_vars

\* The graph of the engine's states.
StateGraph ==
  { <<StateAvailable, StateLocked>>,
    <<StateLocked, StateExecuting>>,
    <<StateExecuting, StateLocked>>,
    <<StateLocked, StateAvailable>>,
    <<StateExecuting, StateAvailable>>,
    <<StateLocked, StateUnrecoverable>>,
    <<StateExecuting, StateUnrecoverable>>,
    <<StateAvailable, StateUnrecoverable>>,
    <<StateUnrecoverable, StateAvailable>> }

\* C6 (state integrity): every change of the engine state is an edge of the
\* state graph.
C6_StateGraph == [][state' # state => <<state, state'>> \in StateGraph]_vars

---------------------------------------------------------------------------
(* Properties: the session controller *)

\* C7 (key stickiness): a bound key never changes to another value; the only
\* change made to it while the process runs is the clearing by an unlock in
\* recycle mode.
C7_KeyStickiness ==
  [][(key # "" /\ key' # key /\ shutPc' # "exited") =>
        /\ key' = ""
        /\ ~dieOnUnlock
        /\ resp'.ep = "unlock"
        /\ resp'.status = 200]_vars

\* C7 witness: a /lock with another key was refused while a key is bound,
\* and the bound key is still there.
C7_Witness ==
  /\ resp.ep = "lock"
  /\ resp.status = 401
  /\ resp.key \in Keys
  /\ key \in Keys
  /\ resp.key # key

\* C8 (bind-or-match): a /lock request reaches the lock hook and the engine
\* only with the bound key, binding it when none was bound and never
\* replacing one; a refused /lock request is answered 401, presented no key
\* or a key other than the bound one, and changes nothing.
C8_BindOrMatch ==
  [][/\ \A t \in Threads : (th[t].pc = "idle" /\ th'[t].pc = "lock") =>
          /\ th'[t].key # ""
          /\ th'[t].key = key'
          /\ key # "" => key' = key
     /\ (nReqs' < nReqs /\ resp'.ep = "lock") =>
          /\ resp'.status = 401
          /\ resp'.key = "" \/ (key # "" /\ resp'.key # key)
          /\ key' = key
          /\ th' = th
          /\ UNCHANGED <<engineVars, readerVars, envVars>>]_vars

\* C8 witness: with no key bound two /lock requests came with different
\* keys; the first bound its key and is still on its way to the engine, the
\* second has just been refused.
C8_Witness ==
  \E t \in Threads :
    /\ th[t].pc = "lock"
    /\ th[t].key = key
    /\ state = StateAvailable
    /\ resp.ep = "lock"
    /\ resp.status = 401
    /\ resp.key \in Keys \ {key}

\* A request arrives in this step (it is not a termination signal).
RequestArrives == nReqs' < nReqs /\ shutPc' = shutPc

\* C9 as stated: while no key is bound, a request to a match-gated endpoint
\* that presents a non-empty key is rejected with 401.
C9_UnboundAnswers401 ==
  [][(key = "" /\ RequestArrives /\ resp'.ep \in VerifiedEndpoints /\ resp'.key # "")
        => resp'.status = 401]_vars

\* C9 amended: while no key is bound, no request to a match-gated endpoint
\* reaches its handler; one that presents a non-empty key is rejected with
\* 409 (one without a key with 401), and nothing changes.
C9_UnboundAnswers409 ==
  [][(key = "" /\ RequestArrives) =>
        /\ \A t \in Threads :
             th'[t].pc \in VerifiedEndpoints => th'[t].pc = th[t].pc
        /\ resp'.ep \in VerifiedEndpoints =>
             /\ resp'.status = IF resp'.key = "" THEN 401 ELSE 409
             /\ th' = th
             /\ key' = key
             /\ UNCHANGED <<engineVars, readerVars, envVars>>]_vars

\* C9 witness: a match-gated request with a key was answered 409 while no
\* key is bound.
C9_Witness ==
  /\ key = ""
  /\ resp.ep \in VerifiedEndpoints
  /\ resp.key \in Keys
  /\ resp.status = 409

\* C10: when an /unlock in recycle mode has answered 200, the engine state
\* is available, no child shell runs and no key is bound.
C10_RecycleUnlock ==
  (resp.ep = "unlock" /\ resp.status = 200 /\ ~dieOnUnlock) =>
     /\ state = StateAvailable
     /\ cmd = 0
     /\ ~child.alive
     /\ key = ""

---------------------------------------------------------------------------
(* Properties: shutdown *)

\* The specification with the scheduling the shutdown path relies on: once
\* the process has raised SIGTERM on itself the signal goroutine runs (its
\* hook, shell.Unlock and httpServer.Shutdown all have deadlines), and once
\* Shutdown was called Serve returns and main ends.
SpecLive ==
  /\ Spec
  /\ WF_vars(ShutdownUnlock)
  /\ WF_vars(ShutdownHook)
  /\ WF_vars(ShutdownPath)
  /\ WF_vars(ShutdownHttp)

\* Thread t's /unlock handler answers in shutdown mode in this step.
UnlocksToDie(t) ==
  /\ dieOnUnlock
  /\ th[t].pc = "unlock"
  /\ th'[t].pc = "idle"
  /\ shutPc' # "exited"

\* A shutdown-mode /unlock has just been answered 200.
DieUnlockAnswered ==
  /\ dieOnUnlock
  /\ resp.ep = "unlock"
  /\ resp.status = 200

\* C11: a shutdown-mode /unlock answers 200 without changing the engine or
\* the bound key; after it the shutdown path is entered and the process
\* ends, and once it has ended no request is answered.
C11_DieUnlockShutsDown ==
  /\ [][\A t \in Threads : UnlocksToDie(t) =>
           /\ resp'.t = t
           /\ resp'.ep = "unlock"
           /\ resp'.status = 200
           /\ key' = key
           /\ UNCHANGED <<engineVars, readerVars, envVars>>]_vars
  /\ [][shutPc = "exited" => resp' = NoResp /\ shutPc' = "exited"]_vars
  /\ (DieUnlockAnswered ~> shutPc \in {"http", "exited"})
  /\ (DieUnlockAnswered ~> shutPc = "exited")

\* C11 witness: a shutdown-mode /unlock was answered 200 with the shell
\* still running and the key still bound, and the process has signalled
\* itself.
C11_Witness ==
  /\ DieUnlockAnswered
  /\ shutPc = "signalled"
  /\ key # ""
  /\ cmd # 0

---------------------------------------------------------------------------
(* Properties: kill, start, unlock *)

\* Thread t's /kill handler runs Kill and answers in this step.
Kills(t) ==
  /\ th[t].pc = "kill"
  /\ th'[t].pc = "idle"
  /\ shutPc' # "exited"

\* C12: Kill never alters the engine: the state, the last output, the
\* output buffer, the markers, the process handle, the channel, the readers
\* and the bound key are unchanged; nothing is put on the read side of the
\* pty and the child shell stays alive.  The ETX byte reaches the child only
\* when a pty exists.
C12_KillFrame ==
  [][\A t \in Threads : Kills(t) =>
        /\ UNCHANGED engineVars
        /\ UNCHANGED readerVars
        /\ key' = key
        /\ ptyOut' = ptyOut
        /\ child'.alive = child.alive
        /\ ptyFile = 0 => child' = child]_vars

\* C12 witness: a /kill was answered in state locked with a shell running,
\* and the state is locked.
C12_Witness ==
  /\ resp.ep = "kill"
  /\ resp.status = 200
  /\ state = StateLocked
  /\ ptyFile # 0
  /\ child.alive

\* C13 (idempotent kill): Kill with no shell running (state available)
\* writes nothing, changes nothing and is answered with success.
C13_KillWhenNotRunning ==
  [][\A t \in Threads : (Kills(t) /\ state = StateAvailable) =>
        /\ resp'.t = t
        /\ resp'.ep = "kill"
        /\ resp'.status = 200
        /\ ptyFile = 0
        /\ UNCHANGED <<engineVars, readerVars, envVars>>
        /\ key' = key]_vars

\* C13 witness: a /kill was answered 200 with no shell running.
C13_Witness ==
  /\ resp.ep = "kill"
  /\ resp.status = 200
  /\ state = StateAvailable
  /\ cmd = 0
  /\ ptyFile = 0

\* One client of a locked session that only executes and kills, with one
\* request more than MaxReqs: the runs of Spec in which nothing else is
\* asked for, the shell does not exit and no signal arrives.  The reader
\* goroutines and the child shell keep running (they are scheduled
\* whenever they can take a step).
InitKill ==
  /\ dieOnUnlock = FALSE
  /\ locking = NoLocking
  /\ cfg = DefaultCfg
  /\ nReqs = MaxReqs + 1
  /\ InitLocked

ReaderStep ==
  \E r \in ReaderIds :
    ReaderInit(r) \/ ReaderRead(r) \/ ReaderProcess(r) \/ ReaderSend(r)

NextKill ==
  \/ \E t \in Threads, ep \in {"execute", "kill"} :
        VerifyKeyMiddleware(t, ep, "A", TRUE, NoOverride)
  \/ \E t \in Threads : HandleExecuteBegin(t)
  \/ \E t \in Threads : ExecuteSelect(t)
  \/ \E t \in Threads : ExecuteReceive(t)
  \/ \E t \in Threads : ExecuteTimeout(t)
  \/ \E t \in Threads : ExecuteFinish(t)
  \/ \E t \in Threads : HandleExecuteState(t)
  \/ \E t \in Threads : HandleKill(t)
  \/ ReaderStep
  \/ ChildEmit

SpecKill ==
  InitKill /\ [][NextKill]_vars /\ WF_vars(ReaderStep) /\ WF_vars(ChildEmit)

\* The end marker line of command id is still to be printed or read.
EndMarkerComing(id) ==
  \/ \E i \in 1..Len(child.pending) :
       \E j \in 1..Len(child.pending[i]) : child.pending[i][j] = Tok("end", id)
  \/ \E i \in 1..Len(ptyOut) : ptyOut[i] = Tok("end", id)
  \/ \E r \in ReaderIds :
       \E i \in 1..Len(readers[r].chunk) : readers[r].chunk[i] = Tok("end", id)

\* C14: Kill interrupts the command, not the shell.  A Kill while a command
\* executes leaves the child shell running; as long as the end marker line
\* of the interrupted command still comes (no later Kill makes the shell
\* abandon it), the state returns to locked with the same child shell; and
\* an Execute accepted after the interrupted command returns the output of
\* its own command.
C14_KillInterruptsCommand ==
  /\ [][\A t \in Threads : (Kills(t) /\ state = StateExecuting) =>
           /\ cmd' = cmd
           /\ ptyFile' = ptyFile
           /\ child'.alive = child.alive]_vars
  /\ [][\A t \in Threads :
          (ReturnsSuccess(t) /\ 0 < child.killed /\ child.killed < th[t].id) =>
             /\ th[t].mine # NoVal
             /\ resp'.body = th[t].mine]_vars
  /\ ((child.killed > 0 /\ state = StateExecuting /\ EndMarkerComing(child.killed))
        ~> \/ state = StateLocked /\ cmd # 0 /\ child.alive
           \/ ~EndMarkerComing(child.killed))

\* Thread t's /lock handler runs Start in this step.
Starts(t) ==
  /\ th[t].pc = "lock_start"
  /\ th'[t].pc # "lock_start"
  /\ shutPc' # "exited"

\* C15: Start in state available ends either in locked, with a child shell
\* behind a pty and an empty output buffer, and returns success, or in
\* unrecoverable, with no child and no pty, and returns the failure; Start
\* in any other state returns an error, spawns nothing and changes nothing.
C15_Start ==
  [][\A t \in Threads : Starts(t) =>
        IF state = StateAvailable
          THEN \/ /\ state' = StateLocked
                  /\ outputBuffer' = <<>>
                  /\ cmd' # 0
                  /\ ptyFile' # 0
                  /\ child'.alive
                  /\ resp'.t = t
                  /\ resp'.ep = "lock"
                  /\ resp'.status = 200
               \/ /\ state' = StateUnrecoverable
                  /\ cmd' = 0
                  /\ ptyFile' = 0
                  /\ ~child'.alive
                  /\ th'[t].pc = "lock_state"
          ELSE /\ th'[t].pc = "lock_state"
               /\ UNCHANGED <<engineVars, readerVars, envVars>>]_vars

\* C15 witness: a Start from available has just succeeded.
C15_Witness ==
  /\ resp.ep = "lock"
  /\ resp.status = 200
  /\ state = StateLocked
  /\ outputBuffer = <<>>
  /\ cmd # 0
  /\ child.alive

\* One client of a locked session in recycle mode that executes, unlocks
\* and locks again with its key, with one request more than MaxReqs: the
\* runs of Spec in which nothing else is asked for, the shell does not exit
\* by itself and no signal arrives.
InitRecycle ==
  /\ dieOnUnlock = FALSE
  /\ locking = NoLocking
  /\ cfg = DefaultCfg
  /\ nReqs = MaxReqs + 1
  /\ InitLocked

NextRecycle ==
  \/ \E t \in Threads : SetKeyMiddleware(t, "A")
  \/ \E t \in Threads, ep \in {"execute", "unlock"} :
        VerifyKeyMiddleware(t, ep, "A", TRUE, NoOverride)
  \/ \E t \in Threads : HandleLockHook(t)
  \/ \E t \in Threads : HandleLockStart(t)
  \/ \E t \in Threads : HandleLockState(t)
  \/ \E t \in Threads : HandleExecuteBegin(t)
  \/ \E t \in Threads : ExecuteSelect(t)
  \/ \E t \in Threads : ExecuteReceive(t)
  \/ \E t \in Threads : ExecuteTimeout(t)
  \/ \E t \in Threads : ExecuteFinish(t)
  \/ \E t \in Threads : HandleExecuteState(t)
  \/ \E t \in Threads : HandleUnlockHook(t)
  \/ \E t \in Threads : HandleUnlockShell(t)
  \/ \E t \in Threads : HandleUnlockKey(t)
  \/ ReaderStep
  \/ ChildEmit

SpecRecycle == InitRecycle /\ [][NextRecycle]_vars

\* Thread t's /unlock handler runs Unlock in this step (recycle mode).
Unlocks(t) ==
  /\ th[t].pc = "unlock_shell"
  /\ th'[t].pc = "unlock_key"

\* C16: Unlock returns success from any state, and when it returns the
\* state is available, the process handle is cleared, no child shell runs
\* and the output buffer is empty; a Start after it yields a fresh shell in
\* state locked.
C16_Unlock ==
  [][/\ \A t \in Threads : Unlocks(t) =>
          /\ state' = StateAvailable
          /\ cmd' = 0
          /\ ptyFile' = 0
          /\ ~child'.alive
          /\ outputBuffer' = <<>>
     /\ \A t \in Threads : (Starts(t) /\ resp'.status = 200) =>
          /\ state' = StateLocked
          /\ child'.alive
          /\ child'.pending = <<>>
          /\ ptyOut' = <<>>
          /\ outputBuffer' = <<>>]_vars

---------------------------------------------------------------------------
(* Properties: errors *)

\* Thread t is inside Execute for a command it started: it waits for the
\* completion of the command or is about to take the completion branch.
InExecute(t) == th[t].pc \in {"exec_select", "exec_wait", "exec_got"}

\* C17: a read error or EOF reported by the reader of an executing command
\* makes the state unrecoverable whether or not the Execute caller still
\* waits: the state is never executing with neither a reader goroutine left
\* nor a caller inside Execute that will take the completion branch.
C17_ReaderFailureIsFatal ==
  (Running /\ state = StateExecuting) =>
     \/ ReaderIds # {}
     \/ \E t \in Threads : InExecute(t)

\* C18: a request answered 400 (empty /execute body, malformed
\* X-Command-Timeout) or 401 (missing key, key other than the bound one)
\* changes nothing: the engine (state, last output, buffer, process handle),
\* the bound key, the child shell and the pseudo-terminal, the readers and
\* the shutdown path are as before, and no handler starts, so that no hook
\* runs (hooks are run by the /lock and /unlock handlers and by the
\* shutdown path only).
C18_InputErrorsMutateNothing ==
  [][resp'.status \in {400, 401} =>
        UNCHANGED <<engineVars, readerVars, envVars, ctlVars, th>>]_vars

\* A malformed /execute is answered 400 while a command runs and its
\* reader reads.
C18_Witness ==
  /\ resp.status = 400
  /\ resp.ep = "execute"
  /\ state = StateExecuting
  /\ ReaderIds # {}

\* The request of thread t has changed the engine: its Execute was accepted
\* (it holds the number of the command it started), or its Start went past
\* the guard.
HasMutated(t) == th[t].id # 0 \/ th[t].val = "started"

\* C19: a request answered 409 has changed nothing: the answering step
\* leaves the engine, the child shell and the bound key alone, and the
\* request did not change the engine in an earlier step either (its Execute
\* or Start was refused at the guard, or the key gate refused it).
C19_ConflictsMutateNothing ==
  [][\A t \in Threads : (resp'.status = 409 /\ resp'.t = t) =>
        /\ ~HasMutated(t)
        /\ UNCHANGED <<engineVars, envVars, key>>]_vars

\* C20: a /lock that passed the key gate and was not answered 200 is
\* answered 500 when the engine was available and starting the child shell
\* failed, and 409 when Start refused it at the guard because the engine
\* was locked, executing or unrecoverable.
C20_LockStatusCodes ==
  [][\A t \in Threads :
        (resp'.ep = "lock" /\ resp'.t = t /\ th[t].pc = "lock_state") =>
           resp'.status = IF th[t].val = "started" THEN 500 ELSE 409]_vars

---------------------------------------------------------------------------
(* Properties: status codes, timeouts, watchdog, hooks *)

\* Execute refused the request of thread t at its guard (the state was not
\* locked) and the handler has still to read shell.State().
RejectedExecute(t) == th[t].pc = "exec_state" /\ th[t].id = 0

\* C21: an /execute that the engine rejected because the state was not
\* locked is answered 409, whatever the reader and the other requests did
\* between the rejection and the handler's read of the state.
C21_RejectedExecuteAnswers409 ==
  [][\A t \in Threads :
        (RejectedExecute(t) /\ resp'.t = t /\ resp'.ep = "execute") =>
           resp'.status = 409]_vars

\* Durations of the configuration and of the override header, in units of
\* time, reach from -1 (time.ParseDuration accepts negative durations and
\* the configuration is not validated for sign) to MaxDuration.
MaxDuration == 2

Durations == -1..MaxDuration

Headers == {NoOverride, Malformed} \cup {Override(d) : d \in -1..(MaxDuration + 1)}

\* A locked session under any configuration of the two command timeouts,
\* serving /execute requests with any X-Command-Timeout header.  The
\* timeout of a request depends on its header and on the configuration
\* only, so one request fewer than MaxReqs is followed.
InitTimeout ==
  /\ dieOnUnlock = FALSE
  /\ locking = NoLocking
  /\ cfg \in [commandDuration : Durations, commandMaximumDuration : Durations,
              idleDuration : {DefaultCfg.idleDuration}]
  /\ nReqs = MaxReqs - 1
  /\ InitLocked

NextTimeout ==
  \/ \E t \in Threads, k \in {"A", "B"}, bodyOk \in BOOLEAN, header \in Headers :
        VerifyKeyMiddleware(t, "execute", k, bodyOk, header)
  \/ \E t \in Threads : HandleExecuteBegin(t)
  \/ \E t \in Threads : ExecuteSelect(t)
  \/ \E t \in Threads : ExecuteReceive(t)
  \/ \E t \in Threads : ExecuteTimeout(t)
  \/ \E t \in Threads : ExecuteFinish(t)
  \/ ReaderStep
  \/ ChildEmit

SpecTimeout == InitTimeout /\ [][NextTimeout]_vars

\* The smaller of two durations.
MinDuration(a, b) == IF a <= b THEN a ELSE b

\* An /execute arrives on thread t and passes the key gate: handleExecute
\* admits it to the engine or answers 400.
ExecuteArrives(t) ==
  /\ th[t].pc = "idle"
  /\ \/ th'[t].pc = "execute"
     \/ (resp'.t = t /\ resp'.ep = "execute" /\ resp'.status = 400)

\* C22: the timeout an admitted /execute passes to the engine is the
\* configured default D when there is no override, and for an override d,
\* with d' = min(d, M), it is d' when d' > 0 and D otherwise; a malformed
\* override is answered 400 and the engine is not called.
C22_EffectiveTimeout ==
  [][\A t \in Threads : ExecuteArrives(t) =>
       LET D == cfg.commandDuration
           M == cfg.commandMaximumDuration
           header == IF resp'.status = 400 THEN resp'.header ELSE th'[t].header
           dd == MinDuration(header.d, M)
       IN /\ header.kind = "bad" => resp'.status = 400
          /\ resp'.status = 400 =>
                /\ th'[t] = Idle
                /\ UNCHANGED <<engineVars, readerVars, envVars>>
          /\ (resp'.status # 400 /\ header.kind = "none") => th'[t].timeout = D
          /\ (resp'.status # 400 /\ header.kind = "duration") =>
                th'[t].timeout = IF dd > 0 THEN dd ELSE D]_vars

\* A request with an override above the maximum was admitted with the
\* maximum as its timeout and its command runs.
C22_Witness ==
  \E t \in Threads :
    /\ th[t].pc = "exec_wait"
    /\ th[t].header.kind = "duration"
    /\ th[t].header.d > cfg.commandMaximumDuration
    /\ cfg.commandMaximumDuration > 0
    /\ th[t].timeout = cfg.commandMaximumDuration
    /\ th[t].timeout # cfg.commandDuration
    /\ state = StateExecuting

\* The session controller with time: any idle timeout, the clients lock,
\* unlock and ask for the health, time passes, the watchdog ticks, and a
\* termination signal may arrive.  The clock multiplies the states, so one
\* event from outside fewer than MaxReqs is followed.
InitIdle ==
  /\ dieOnUnlock \in BOOLEAN
  /\ locking = NoLocking
  /\ cfg \in {[DefaultCfg EXCEPT !.idleDuration = i] : i \in Durations}
  /\ nReqs = MaxReqs - 1
  /\ InitFresh \/ InitLocked

NextIdle ==
  \/ \E t \in Threads, k \in Keys \cup {""} : SetKeyMiddleware(t, k)
  \/ \E t \in Threads, k \in Keys \cup {""} :
        VerifyKeyMiddleware(t, "unlock", k, TRUE, NoOverride)
  \/ \E t \in Threads : HandleHealth(t)
  \/ \E t \in Threads : HandleLockHook(t)
  \/ \E t \in Threads : HandleLockStart(t)
  \/ \E t \in Threads : HandleLockState(t)
  \/ \E t \in Threads : HandleUnlockDie(t)
  \/ \E t \in Threads : HandleUnlockHook(t)
  \/ \E t \in Threads : HandleUnlockShell(t)
  \/ \E t \in Threads : HandleUnlockKey(t)
  \/ Tick
  \/ MonitorIdleTimeout
  \/ Signal
  \/ ShutdownUnlock
  \/ ShutdownHook
  \/ ShutdownPath
  \/ ShutdownHttp

\* Time passes, the ticker of the watchdog ticks, and the signal goroutine
\* runs to its end.
SpecIdle ==
  /\ InitIdle
  /\ [][NextIdle]_vars
  /\ WF_vars(Tick)
  /\ WF_vars(MonitorIdleTimeout)
  /\ WF_vars(ShutdownUnlock)
  /\ WF_vars(ShutdownHook)
  /\ WF_vars(ShutdownPath)
  /\ WF_vars(ShutdownHttp)

\* A request arrives and passes its key gate in this step: its handler
\* starts, or handleExecute answers 400 at once.
PassesGate ==
  /\ RequestArrives
  /\ \/ \E t \in Threads : th[t].pc = "idle" /\ th'[t].pc # "idle"
     \/ resp'.status = 400

\* The watchdog raises SIGTERM in this step (a shutdown-mode /unlock, the
\* other step that raises it, answers 200).
WatchdogFires ==
  /\ shutPc = "wait"
  /\ shutPc' = "signalled"
  /\ resp' = NoResp

\* C23: the last-activity timestamp is set to the present time by every
\* request that passes a key gate and is changed by no other step (not by
\* /health, not by a request the gate refuses); the watchdog raises the
\* termination signal only when more than the idle timeout has passed since
\* the last activity; and, the requests that pass the gate being finitely
\* many, the shutdown is initiated in the end.
C23_IdleWatchdog ==
  /\ [][/\ PassesGate => lastActivity' = now
        /\ (~PassesGate /\ shutPc' # "exited") => lastActivity' = lastActivity
        /\ WatchdogFires => now - lastActivity > cfg.idleDuration]_vars
  /\ <>(shutPc # "wait")

\* The watchdog has fired in recycle mode, more than the idle timeout after
\* a request refreshed the timestamp at a time later than the start.
C23_Witness ==
  /\ ~dieOnUnlock
  /\ shutPc = "signalled"
  /\ lastActivity > 0
  /\ cfg.idleDuration > 0
  /\ now - lastActivity > cfg.idleDuration

\* Thread t's handler leaves its hook call in this step: /lock (ep "lock")
\* or recycle-mode /unlock (ep "unlock").
HookReturns(t, ep) ==
  /\ th[t].pc = ep
  /\ th'[t].pc # ep
  /\ shutPc' # "exited"
  /\ ep = "unlock" => ~dieOnUnlock

\* C24: the lock hook has ended before Start begins and the unlock hook of
\* a recycle /unlock has ended before Unlock begins; and whatever the hook
\* did (empty command, success, failure or no helper shell at all) the
\* handler answers nothing for it, leaves the engine alone and goes on to
\* the engine operation, which acts on the engine state alone: Start from
\* available ends in locked or unrecoverable and changes nothing from any
\* other state, Unlock ends in available.
C24_HooksOrderedNonFatal ==
  [][\A t \in Threads :
        /\ Starts(t) => th[t].val \in HookOutcomes
        /\ Unlocks(t) => th[t].val \in HookOutcomes
        /\ HookReturns(t, "lock") =>
             /\ th'[t].pc = "lock_start"
             /\ resp' = NoResp
             /\ UNCHANGED <<engineVars, readerVars, envVars>>
        /\ HookReturns(t, "unlock") =>
             /\ th'[t].pc = "unlock_shell"
             /\ resp' = NoResp
             /\ UNCHANGED <<engineVars, readerVars, envVars>>
        /\ Starts(t) =>
             IF state = StateAvailable
               THEN state' \in {StateLocked, StateUnrecoverable}
               ELSE UNCHANGED engineVars
        /\ Unlocks(t) => state' = StateAvailable /\ cmd' = 0]_vars

\* After an unlock hook that failed, a recycle /unlock has torn the shell
\* down and is about to clear the key.
C24_Witness ==
  \E t \in Threads :
    /\ th[t].pc = "unlock_key"
    /\ th[t].val = "hook_err"
    /\ state = StateAvailable
    /\ key # ""
    /\ ~child.alive

\* The outcomes of Hooks.run in which the hook command was run.
HookFired == {"hook_ok", "hook_err"}

\* C30: the lock hook is fired only by a /lock whose precondition holds:
\* when the hook command is run the engine state is available, and a /lock
\* that Start refuses because the engine is locked, executing or
\* unrecoverable, and that is answered 409 for it, has not run the hook.
C30_LockHookOnlyWhenAvailable ==
  [][\A t \in Threads :
        /\ (HookReturns(t, "lock") /\ th'[t].val \in HookFired) =>
              state = StateAvailable
        /\ (resp'.t = t /\ resp'.ep = "lock" /\ resp'.status = 409
              /\ th[t].val # "started") =>
              th[t].val \notin HookFired]_vars

\* The order of the shutdown path: a trigger, the unlock hook, the engine
\* unlock, the stop of the transport.
ShutdownOrder ==
  { <<"wait", "signalled">>, <<"wait", "hook">>, <<"signalled", "hook">>,
    <<"hook", "unlock">>, <<"unlock", "http">>, <<"http", "exited">> }

\* C29: the termination signal, the idle watchdog and the shutdown-mode
\* /unlock all start the one shutdown path, which runs once and in this
\* order: the unlock hook, then the engine unlock, then the stop of the
\* transport.  The steps before the end of the hook leave the engine alone,
\* the engine is unlocked by the step after the hook, the process exits
\* only after that, and a path that was triggered runs to its end.
C29_ShutdownOrder ==
  /\ [][/\ shutPc' # shutPc => <<shutPc, shutPc'>> \in ShutdownOrder
        /\ (shutPc' # shutPc /\ shutPc' \in {"signalled", "hook", "unlock"}) =>
              UNCHANGED <<engineVars, readerVars, envVars>>
        /\ (shutPc = "unlock" /\ shutPc' = "http") =>
              state' = StateAvailable /\ cmd' = 0 /\ ~child'.alive]_vars
  /\ (shutPc \in {"signalled", "hook"}) ~> (shutPc = "exited")

\* The watchdog alone (no request and no signal since the session was
\* locked) has brought the path to the stop of the transport: the shell of
\* the bound client is gone.
C29_Witness ==
  /\ shutPc = "http"
  /\ nReqs = MaxReqs - 1
  /\ key = "A"
  /\ state = StateAvailable
  /\ ~child.alive
  /\ now - lastActivity > cfg.idleDuration

---------------------------------------------------------------------------
(* Properties: engine invariants *)

\* C25: while the engine state is executing exactly one reader goroutine
\* reads the pseudo-terminal: never none, never two.
C25_ExecutingHasOneReader ==
  state = StateExecuting => Cardinality(ReaderIds) = 1

\* C26: right after every transition into executing the output buffer and
\* the last-output slot are empty; and on every transition from executing
\* to locked the last-output slot holds the output extracted for the
\* command that was executing: the transition is made by the reader of that
\* command when it observes the end marker, or by the caller of that
\* command after its reader has extracted the output.
C26_OutputSlots ==
  [][/\ (state # StateExecuting /\ state' = StateExecuting) =>
          outputBuffer' = <<>> /\ lastOutput' = <<>>
     /\ (state = StateExecuting /\ state' = StateLocked) =>
          \/ /\ endMarker \in ReaderIds
             /\ ObservesEndMarker(endMarker)
             /\ lastOutput' = extractOutput(outputBuffer', endMarker, endMarker)
          \/ \E t \in Threads :
               /\ ReturnsSuccess(t)
               /\ th[t].id = endMarker
               /\ th[t].mine # NoVal
               /\ lastOutput' = th[t].mine]_vars

\* C27: whenever the engine state is locked or executing a child shell is
\* there: the process handle and the pseudo-terminal handle are both
\* present.
C27_LockedHasShell ==
  state \in {StateLocked, StateExecuting} => (cmd # 0 /\ ptyFile # 0)

\* The commands in flight among the readers rs: written to the pty of the
\* present session, their end marker not yet observed by their reader.
InFlight(rs) ==
  {r \in 1..Len(rs) : rs[r].pc \in {"init", "read", "process"} /\ ~rs[r].stale}

\* Thread t's Execute leaves its completion branch in this step.
CompletionBranch(t) ==
  /\ th[t].pc = "exec_got"
  /\ th'[t].pc # "exec_got"
  /\ shutPc' # "exited"

\* C28: at most one command is in flight at any time, and none while the
\* state is locked; and the completion branch of an Execute caller does not
\* overwrite the executing state of another, later command.
C28_OneCommandInFlight ==
  [][/\ Cardinality(InFlight(readers')) <= 1
     /\ state' = StateLocked => InFlight(readers') = {}
     /\ \A t \in Threads :
          (CompletionBranch(t) /\ state = StateExecuting /\ endMarker # th[t].id) =>
             state' = StateExecuting]_vars

---------------------------------------------------------------------------
(* The output path at the level of bytes *)

\* The bytes of the pty stream that the engine tells apart: carriage return,
\* line feed, the single quote of the wrapped command line, the bytes the
\* markers are made of, and "a" for any other byte.
CR == "CR"
LF == "LF"
Quote == "q"

\* "<<<SHELLD_START_%d>>>" and "<<<SHELLD_END_%d>>>" of one command: two
\* strings with a common head and different tails.
StartMarkerText == <<"<", "s">>
EndMarkerText   == <<"<", "e">>

\* The terminal's echo of the wrapped command line
\* echo '<start>';eval "$(echo '<base64>'|base64 -d)";echo;echo '<end>'
\* with the line feed echoed as CR LF.
WrappedEchoText(sm, em) ==
  <<"a", Quote>> \o sm \o <<Quote, "a", Quote>> \o em \o <<Quote, CR, LF>>

\* sub occurs in s at position i (from 1).
OccursAt(s, sub, i) ==
  /\ i >= 1
  /\ i + Len(sub) - 1 <= Len(s)
  /\ SubSeq(s, i, i + Len(sub) - 1) = sub

\* strings.Index( s, sub ), counted from 1; 0 stands for -1.
Index(s, sub) ==
  LET hits == {i \in 1..Len(s) : OccursAt(s, sub, i)}
  IN IF hits = {} THEN 0 ELSE Min(hits)

\* bytes.Contains( s, sub )
Contains(s, sub) == Index(s, sub) # 0

\* strings.Split( s, "\n" )
RECURSIVE Split(_)
Split(s) ==
  LET i == Index(s, <<LF>>)
  IN IF i = 0 THEN <<s>>
     ELSE <<SubSeq(s, 1, i - 1)>> \o Split(SubSeq(s, i + 1, Len(s)))

\* strings.TrimSuffix( line, "\r" )
TrimSuffix(line) ==
  IF Len(line) > 0 /\ line[Len(line)] = CR
    THEN SubSeq(line, 1, Len(line) - 1) ELSE line

\* strings.Join( lines, "\n" )
RECURSIVE Join(_)
Join(lines) ==
  IF lines = <<>> THEN <<>>
  ELSE IF Len(lines) = 1 THEN lines[1]
  ELSE lines[1] \o <<LF>> \o Join(Tail(lines))

\* extractOutput on the bytes of the buffer, with the values of the fields
\* shell.startMarker and shell.endMarker.
extractOutputText_KeepsCR(output, sm, em) ==
  LET startMarkerOutput == sm \o <<CR, LF>>
      startIdx == Index(output, startMarkerOutput)
  IN IF startIdx = 0 THEN <<>>
     ELSE LET after == SubSeq(output, startIdx + Len(startMarkerOutput), Len(output))
              endIdx == Index(after, em)
          IN IF endIdx = 0 THEN <<>>
             ELSE LET lines == Split(SubSeq(after, 1, endIdx - 1))
                  IN Join(SelectSeq(lines, LAMBDA l : l # <<>>))

extractOutputText(output, sm, em) ==
  LET startMarkerOutput == sm \o <<CR, LF>>
      startIdx == Index(output, startMarkerOutput)
  IN IF startIdx = 0 THEN <<>>
     ELSE LET after == SubSeq(output, startIdx + Len(startMarkerOutput), Len(output))
              endIdx == Index(after, em)
          IN IF endIdx = 0 THEN <<>>
             ELSE LET lines == Split(SubSeq(after, 1, endIdx - 1))
                      trimmed == [i \in 1..Len(lines) |-> TrimSuffix(lines[i])]
                  IN Join(SelectSeq(trimmed, LAMBDA l : l # <<>>))

\* bytes.Contains( bufferBytes, endMarkerOutput ) of readUntilMarker.
ContainsEndMarkerText_Bare(buf, em) == Contains(buf, em)

ContainsEndMarkerText(buf, em) == Contains(buf, <<LF>> \o em \o <<CR, LF>>)

\* Pieces a pty stream is put together from.
Pieces == {StartMarkerText, EndMarkerText, <<CR>>, <<LF>>, <<"a">>}

RECURSIVE Flatten(_)
Flatten(ps) == IF ps = <<>> THEN <<>> ELSE Head(ps) \o Flatten(Tail(ps))

\* A session that executes command 1: the wrapped command is written, the
\* reader of the command is at the head of its loop; `buf` is what the
\* buffer has accumulated and `stream` what the pty has still to deliver.
InitBytes(buf, stream) ==
  /\ dieOnUnlock = FALSE
  /\ locking = NoLocking
  /\ cfg = DefaultCfg
  /\ nReqs = 0
  /\ key = "A"
  /\ shutPc = "wait"
  /\ now = 0
  /\ lastActivity = 0
  /\ th = [t \in Threads |-> Idle]
  /\ resp = NoResp
  /\ state = StateExecuting
  /\ cmd = 1
  /\ ptyFile = 1
  /\ outputBuffer = buf
  /\ lastOutput = <<>>
  /\ commandDone = 1
  /\ currentCommand = "c"
  /\ startMarker = StartMarkerText
  /\ endMarker = EndMarkerText
  /\ chans = <<"empty">>
  /\ readers = <<[NoReader EXCEPT !.pc = "read", !.em = EndMarkerText]>>
  /\ child = [alive |-> TRUE, pending |-> <<>>, killed |-> 0, unreaped |-> 1]
  /\ ptyOut = stream

\* ptyFile.Read( buf ) returns the next n bytes of the stream.
ReaderReadBytes(r, n) ==
  /\ readers[r].pc = "read"
  /\ ptyFile # 0
  /\ n \in 1..Len(ptyOut)
  /\ SetReader(r, [readers[r] EXCEPT !.pc = "process", !.chunk = SubSeq(ptyOut, 1, n)])
  /\ ptyOut' = SubSeq(ptyOut, n + 1, Len(ptyOut))
  /\ resp' = NoResp
  /\ UNCHANGED <<ctlVars, th, nReqs, engineVars, chans, child>>

\* Under the mutex: the chunk is appended, the end marker line is looked
\* for, and on a match the output is extracted and the state set to locked.
ReaderProcessBytes(r) ==
  LET buf == outputBuffer \o readers[r].chunk IN
  /\ readers[r].pc = "process"
  /\ outputBuffer' = buf
  /\ IF ContainsEndMarkerText(buf, readers[r].em)
       THEN /\ lastOutput' = extractOutputText(buf, startMarker, endMarker)
            /\ state' = StateLocked
            /\ SetReader(r, [readers[r] EXCEPT !.pc = "send", !.val = "nil", !.chunk = <<>>])
       ELSE /\ UNCHANGED <<lastOutput, state>>
            /\ SetReader(r, [readers[r] EXCEPT !.pc = "read", !.chunk = <<>>])
  /\ UNCHANGED <<cmd, ptyFile, commandDone, currentCommand, startMarker, endMarker>>
  /\ resp' = NoResp
  /\ UNCHANGED <<ctlVars, th, nReqs, chans, envVars>>

\* A call of extractOutput on the accumulated buffer, as made by the reader
\* under the mutex.
ExtractOutputCall(r) ==
  /\ readers[r].pc = "read"
  /\ lastOutput' = extractOutputText(outputBuffer, startMarker, endMarker)
  /\ SetReader(r, [readers[r] EXCEPT !.pc = "send", !.val = "nil"])
  /\ resp' = NoResp
  /\ UNCHANGED <<ctlVars, th, nReqs, state, cmd, ptyFile, outputBuffer, commandDone,
                 currentCommand, startMarker, endMarker, chans, envVars>>

\* Pieces in an accumulated buffer.
MaxPieces == 7

\* extractOutput applied to every buffer of up to MaxPieces pieces.
InitExtract ==
  \E k \in 0..MaxPieces : \E ps \in [1..k -> Pieces] : InitBytes(Flatten(ps), <<>>)

NextExtract == \E r \in ReaderIds : ExtractOutputCall(r)

SpecExtract == InitExtract /\ [][NextExtract]_vars

\* Pieces the child prints after the echo of the wrapped command line.
MaxTail == 4

\* What the child prints: the start marker line, the end marker, the line
\* ends and their parts, and other bytes.
TailPieces ==
  {StartMarkerText \o <<CR, LF>>, EndMarkerText, <<CR>>, <<LF>>, <<CR, LF>>, <<"a">>}

\* The reader on the echo of the wrapped command followed by any output of
\* up to MaxTail pieces, read in chunks of any size.
InitChunks ==
  \E k \in 0..MaxTail : \E tail \in [1..k -> TailPieces] :
     InitBytes(<<>>, WrappedEchoText(StartMarkerText, EndMarkerText) \o Flatten(tail))

NextChunks ==
  \/ \E r \in ReaderIds, n \in 1..Len(ptyOut) : ReaderReadBytes(r, n)
  \/ \E r \in ReaderIds : ReaderProcessBytes(r)

SpecChunks == InitChunks /\ [][NextChunks]_vars

---------------------------------------------------------------------------
(* Properties: output extraction and completion detection *)

\* The lines of text: the runs of bytes between line feeds, found by one
\* pass over the bytes (line is the run gathered so far).
RECURSIVE LinesOf(_, _)
LinesOf(text, line) ==
  IF text = <<>> THEN <<line>>
  ELSE IF Head(text) = LF THEN <<line>> \o LinesOf(Tail(text), <<>>)
  ELSE LinesOf(Tail(text), Append(line, Head(text)))

\* line without one trailing carriage return.
WithoutTrailingCR(line) ==
  IF line # <<>> /\ line[Len(line)] = CR THEN SubSeq(line, 1, Len(line) - 1) ELSE line

\* The lines of text that are not empty once a trailing CR is removed, each
\* followed by a line feed except the last.
RECURSIVE JoinedLines(_, _)
JoinedLines(lines, first) ==
  IF lines = <<>> THEN <<>>
  ELSE LET line == WithoutTrailingCR(Head(lines))
       IN IF line = <<>> THEN JoinedLines(Tail(lines), first)
          ELSE (IF first THEN <<>> ELSE <<LF>>) \o line \o JoinedLines(Tail(lines), FALSE)

\* What the output extraction is said to return for the buffer buf.
ExpectedOutput(buf) ==
  LET startOutput == StartMarkerText \o <<CR, LF>>
      starts == {i \in 1..Len(buf) : OccursAt(buf, startOutput, i)}
  IN IF starts = {} THEN <<>>
     ELSE LET from == Min(starts) + Len(startOutput)
              ends == {j \in from..Len(buf) : OccursAt(buf, EndMarkerText, j)}
          IN IF ends = {} THEN <<>>
             ELSE JoinedLines(LinesOf(SubSeq(buf, from, Min(ends) - 1), <<>>), TRUE)

\* buf is what the pty delivers for a command that prints `text` without a
\* final newline: the start marker line, the text, the CR LF of the bare
\* echo and the end marker, after anything that holds no start marker line.
EmitsWithoutNewline(buf, text) ==
  LET whole == StartMarkerText \o <<CR, LF>> \o text \o <<CR, LF>> \o EndMarkerText
      at == Index(buf, StartMarkerText \o <<CR, LF>>)
  IN at # 0 /\ OccursAt(buf, whole, at)

\* extractOutput has returned for the accumulated buffer.
Extracted == readers[1].pc = "send"

\* C31: for every accumulated buffer the extracted output is empty if the
\* start marker line or a following end marker is missing, and otherwise
\* the text between the first start marker line and the next end marker,
\* split on LF, one trailing CR removed per line, empty lines dropped, the
\* rest joined with LF; a text printed without a final newline is returned
\* as it is, and no output gives the empty string.
C31_OutputExtraction ==
  Extracted =>
    /\ lastOutput = ExpectedOutput(outputBuffer)
    /\ \A n \in 0..MaxPieces :
         LET text == [i \in 1..n |-> "a"]
         IN EmitsWithoutNewline(outputBuffer, text) => lastOutput = text

\* A command that prints one byte without a final newline was extracted.
C31_Witness ==
  /\ Extracted
  /\ outputBuffer = StartMarkerText \o <<CR, LF, "a", CR, LF>> \o EndMarkerText
  /\ lastOutput = <<"a">>

\* The echo of the wrapped command line, which every stream begins with.
EchoLine == WrappedEchoText(StartMarkerText, EndMarkerText)

\* The reader completes the command in this step.
Completes ==
  /\ readers[1].pc = "process"
  /\ readers'[1].pc = "send"
  /\ state' = StateLocked

\* C32: the reader completes a command only when the accumulated buffer
\* holds LF + endMarker + CR LF, and the end marker of that line lies behind
\* the echo of the wrapped command line: the echo, where the marker stands
\* between quotes, does not complete the command however the stream is cut
\* into chunks.
C32_AnchoredCompletion ==
  [][/\ Completes =>
          \E i \in (Len(EchoLine) + 1)..Len(outputBuffer') :
             /\ OccursAt(outputBuffer', EndMarkerText, i)
             /\ outputBuffer'[i - 1] = LF
             /\ OccursAt(outputBuffer', <<CR, LF>>, i + Len(EndMarkerText))
     /\ Len(outputBuffer') <= Len(EchoLine) => state' = StateExecuting]_vars

\* The reader has taken in the echo of a command that prints nothing and
\* has completed on the end marker line that the child printed.
C32_Witness ==
  /\ state = StateLocked
  /\ readers[1].pc = "send"
  /\ outputBuffer = EchoLine \o StartMarkerText \o <<CR, LF, CR, LF>>
                              \o EndMarkerText \o <<CR, LF>>
  /\ lastOutput = <<>>
  /\ ptyOut = <<>>

---------------------------------------------------------------------------
(* The three locks *)

\* The bound-key read/write lock, the last-activity mutex and the mutex of
\* the session engine.
KeyMutex      == "keyMutex"
ActivityMutex == "activityMutex"
ShellMutex    == "mu"

LockOp(op, lock) == [op |-> op, lock |-> lock]

\* Lock ... Unlock and RLock ... RUnlock of one lock, nothing locked in
\* between.
Section(lock)  == <<LockOp("Lock", lock), LockOp("Unlock", lock)>>
RSection(lock) == <<LockOp("RLock", lock), LockOp("RUnlock", lock)>>

\* updateActivity
UpdateActivityOps == Section(ActivityMutex)

\* Shell.State, Shell.Output, Shell.Kill, Shell.Start, Shell.Unlock: the
\* mutex from the first line to the return.
EngineCallOps == Section(ShellMutex)

\* handleLock: Start, and State after a Start that failed.
HandleLockOps == {EngineCallOps, EngineCallOps \o EngineCallOps}

\* handleExecute: nothing for a request answered 400; Execute takes the
\* mutex up to the write of the wrapped command (or the rejection) and
\* again in the completion branch of the select; State after an error that
\* is not the timeout.
HandleExecuteOps ==
  {<<>>, EngineCallOps, EngineCallOps \o EngineCallOps,
   EngineCallOps \o EngineCallOps \o EngineCallOps}

\* handleKill, handleOutput, handleState
HandleCallOps == {EngineCallOps}

\* handleUnlock: nothing in die mode; in recycle mode Shell.Unlock, then the
\* key is cleared under the key lock.
HandleUnlockOps_Nested ==
  IF dieOnUnlock THEN {<<>>}
  ELSE {<<LockOp("Lock", KeyMutex)>> \o EngineCallOps \o <<LockOp("Unlock", KeyMutex)>>}

HandleUnlockOps ==
  IF dieOnUnlock THEN {<<>>} ELSE {EngineCallOps \o Section(KeyMutex)}

\* setKeyMiddleware in front of handleLock: the key is bound or compared
\* under the key lock; a request whose key matches goes on to
\* updateActivity and the handler.
SetKeyMiddlewareOps ==
  {<<>>, Section(KeyMutex)}
    \cup {Section(KeyMutex) \o UpdateActivityOps \o h : h \in HandleLockOps}

\* verifyKeyMiddleware in front of the other handlers.
VerifyKeyMiddlewareOps ==
  {<<>>, RSection(KeyMutex)}
    \cup {RSection(KeyMutex) \o UpdateActivityOps \o h :
            h \in HandleExecuteOps \cup HandleCallOps \cup HandleUnlockOps}

\* One tick of monitorIdleTimeout.
MonitorIdleTimeoutOps == {Section(ActivityMutex)}

\* The signal goroutine: the unlock hook, Shell.Unlock, the transport stop.
ShutdownOps == {EngineCallOps}

\* One turn of the loop of readUntilMarker: the pty handle is read under
\* the mutex, and after a Read that succeeded the chunk is handled under it.
ReaderOps == {EngineCallOps, EngineCallOps \o EngineCallOps}

ActivityOps(a) ==
  IF a \in Threads THEN SetKeyMiddlewareOps \cup VerifyKeyMiddlewareOps
  ELSE IF a = Watchdog THEN MonitorIdleTimeoutOps
  ELSE IF a = SignalGoroutine THEN ShutdownOps
  ELSE ReaderOps

\* The locks a holds.
Held(a) == {h[1] : h \in locking[a].held}

\* sync.Mutex and sync.RWMutex: a lock is granted for writing when nobody
\* holds it, for reading when nobody holds it for writing.
Granted(lock, mode) ==
  \A b \in Actors : \A h \in locking[b].held :
     h[1] = lock => (mode = "r" /\ h[2] = "r")

\* a starts an activity: a request arrives at a request thread, the ticker
\* of the watchdog fires, the signal arrives, the reader enters its loop.
BeginActivity(a, prog) ==
  /\ Running
  /\ locking[a] = NoLocking[a]
  /\ prog \in ActivityOps(a)
  /\ prog # <<>>
  /\ IF a \in Threads THEN nReqs > 0 /\ nReqs' = nReqs - 1 ELSE UNCHANGED nReqs
  /\ locking' = [locking EXCEPT ![a].prog = prog]
  /\ UNCHANGED <<dieOnUnlock, cfg, key, shutPc, now, lastActivity, th, resp,
                 engineVars, readerVars, envVars>>

\* Lock or RLock, which blocks until the lock is granted.
Acquire(a) ==
  LET o == Head(locking[a].prog)
      mode == IF o.op = "Lock" THEN "w" ELSE "r"
  IN /\ locking[a].prog # <<>>
     /\ o.op \in {"Lock", "RLock"}
     /\ Granted(o.lock, mode)
     /\ locking' = [locking EXCEPT ![a].prog = Tail(@),
                                   ![a].held = @ \cup {<<o.lock, mode>>}]
     /\ UNCHANGED <<dieOnUnlock, cfg, key, shutPc, now, lastActivity, th, resp, nReqs,
                    engineVars, readerVars, envVars>>

\* Unlock or RUnlock.
Release(a) ==
  LET o == Head(locking[a].prog)
      mode == IF o.op = "Unlock" THEN "w" ELSE "r"
  IN /\ locking[a].prog # <<>>
     /\ o.op \in {"Unlock", "RUnlock"}
     /\ locking' = [locking EXCEPT ![a].prog = Tail(@),
                                   ![a].held = @ \ {<<o.lock, mode>>}]
     /\ UNCHANGED <<dieOnUnlock, cfg, key, shutPc, now, lastActivity, th, resp, nReqs,
                    engineVars, readerVars, envVars>>

InitLocks ==
  /\ dieOnUnlock \in BOOLEAN
  /\ locking = NoLocking
  /\ cfg = DefaultCfg
  /\ nReqs = MaxReqs
  /\ InitLocked

NextLocks ==
  \/ \E a \in Actors : \E prog \in ActivityOps(a) : BeginActivity(a, prog)
  \/ \E a \in Actors : Acquire(a)
  \/ \E a \in Actors : Release(a)

SpecLocks == InitLocks /\ [][NextLocks]_vars

\* C33: no thread of execution holds two of the three locks at the same
\* time, in a handler, in the watchdog or in the shutdown path.
C33_NoTwoLocks == \A a \in Actors : Cardinality(Held(a)) <= 1

\* The three locks are held at the same time, by three threads of
\* execution, one of them in the recycle-mode /unlock that has unlocked the
\* engine and clears the key.
C33_Witness ==
  /\ ~dieOnUnlock
  /\ \E t \in Threads :
       /\ locking[t].held = {<<KeyMutex, "w">>}
       /\ locking[t].prog = <<LockOp("Unlock", KeyMutex)>>
  /\ Held(Watchdog) = {ActivityMutex}
  /\ Held(SignalGoroutine) = {ShellMutex}

---------------------------------------------------------------------------
(* Properties: the child shell *)

\* C34: a child shell is spawned only by a Start from available, and
\* whenever the state becomes available every child that was spawned has
\* been waited for, the child of a failed readiness handshake included.
C34_ChildLifecycle ==
  [][/\ child'.unreaped > child.unreaped =>
          (state = StateAvailable /\ \E t \in Threads : Starts(t))
     /\ (state # StateAvailable /\ state' = StateAvailable) => child'.unreaped = 0]_vars

---------------------------------------------------------------------------
(* Properties: the key and the sessions *)

\* C35: while the engine state is locked or executing a key is bound: a
\* running shell is never without an owning key.
C35_RunningShellHasKey ==
  (Running /\ state \in {StateLocked, StateExecuting}) => key # ""

\* C36: when a /lock request is answered 200 the bound key is the key that
\* request presented.
C36_LockAnswerOwnsKey ==
  (resp.ep = "lock" /\ resp.status = 200) => key = resp.key

\* A session in recycle mode, locked with key "A", in which one command has
\* run to its end and was answered 200 with its output (from InitLocked:
\* VerifyKeyMiddleware for /execute, HandleExecuteBegin, the reader to its
\* end, ExecuteSelect, ExecuteReceive, ExecuteFinish).
InitSessions ==
  /\ dieOnUnlock = FALSE
  /\ locking = NoLocking
  /\ cfg = DefaultCfg
  /\ nReqs = MaxReqs + 1
  /\ key = "A"
  /\ shutPc = "wait"
  /\ now = 0
  /\ lastActivity = 0
  /\ th = [t \in Threads |-> Idle]
  /\ resp = NoResp
  /\ state = StateLocked
  /\ cmd = 1
  /\ ptyFile = 1
  /\ outputBuffer = <<WrappedEcho(1), Tok("start", 1), Tok("out", 1), Tok("nl", 1),
                      Tok("end", 1)>>
  /\ lastOutput = <<Tok("out", 1)>>
  /\ commandDone = 1
  /\ currentCommand = "c"
  /\ startMarker = 1
  /\ endMarker = 1
  /\ chans = <<"empty">>
  /\ readers = <<NoReader>>
  /\ child = [alive |-> TRUE, pending |-> <<>>, killed |-> 0, unreaped |-> 1]
  /\ ptyOut = <<>>

\* The requests that end a session, begin the next and read the last
\* output; no command is executed.
NextSessions ==
  \/ \E t \in Threads, k \in Keys : SetKeyMiddleware(t, k)
  \/ \E t \in Threads, ep \in {"unlock", "output"}, k \in Keys :
        VerifyKeyMiddleware(t, ep, k, TRUE, NoOverride)
  \/ \E t \in Threads : HandleLockHook(t)
  \/ \E t \in Threads : HandleLockStart(t)
  \/ \E t \in Threads : HandleLockState(t)
  \/ \E t \in Threads : HandleUnlockHook(t)
  \/ \E t \in Threads : HandleUnlockShell(t)
  \/ \E t \in Threads : HandleUnlockKey(t)
  \/ \E t \in Threads : HandleOutput(t)

SpecSessions == InitSessions /\ [][NextSessions]_vars

\* C37: the last-output slot carries no output into another session: after
\* an Unlock and a new Start, Output returns the empty string until a
\* command of the new session has completed.  Here the first session is
\* owned by key "A" and no command is executed after it, so whatever is
\* returned to another key comes from a later session without a command.
C37_OutputStaysInSession ==
  (resp.ep = "output" /\ resp.status = 200 /\ resp.key # "A") => resp.body = <<>>

\* C38: once an Unlock has made the state available, an Execute call that
\* was waiting for the completion of its command when the Unlock ran does
\* not change the state when it goes on.
C38_UnlockedStaysAvailable ==
  [][\A t \in Threads :
       (InExecute(t) /\ th'[t].pc # th[t].pc /\ state = StateAvailable /\ shutPc' # "exited") =>
          state' = StateAvailable]_vars

---------------------------------------------------------------------------
(* Properties: shutdown and requests in flight *)

\* C39: once the shutdown path has unlocked the engine no child shell is
\* started, and none runs when the process exits.
C39_NoStartAfterShutdownUnlock ==
  [][shutPc = "http" =>
       /\ child.alive \/ ~child'.alive
       /\ shutPc' = "exited" => ~child.alive]_vars

\* case <-time.After( timeout ) with the clock: the timer fires when the
\* timeout has passed since the select was entered.
ExecuteTimeoutAt(t) ==
  /\ now >= th[t].until
  /\ ExecuteTimeout(t)

\* A unit of time passes; a caller whose timer has run down leaves the
\* select before more time passes.
TickBusy ==
  /\ \A t \in Threads : th[t].pc = "exec_wait" => now < th[t].until
  /\ Tick

\* A locked session under any configuration of positive timeouts (the
\* configuration is not validated: the idle timeout may be below the
\* command timeouts), serving /execute requests while time passes and the
\* watchdog runs.
InitBusy ==
  /\ dieOnUnlock = FALSE
  /\ locking = NoLocking
  /\ cfg \in [commandDuration : 1..MaxDuration, commandMaximumDuration : 1..MaxDuration,
              idleDuration : 1..MaxDuration]
  /\ nReqs = MaxReqs - 1
  /\ InitLocked

NextBusy ==
  \/ \E t \in Threads, header \in {NoOverride} \cup {Override(d) : d \in 1..MaxDuration} :
        VerifyKeyMiddleware(t, "execute", "A", TRUE, header)
  \/ \E t \in Threads : HandleExecuteBegin(t)
  \/ \E t \in Threads : ExecuteSelect(t)
  \/ \E t \in Threads : ExecuteReceive(t)
  \/ \E t \in Threads : ExecuteTimeoutAt(t)
  \/ \E t \in Threads : ExecuteFinish(t)
  \/ ReaderStep
  \/ ChildEmit
  \/ TickBusy
  \/ MonitorIdleTimeout

SpecBusy == InitBusy /\ [][NextBusy]_vars

\* Thread t serves an /execute request that has passed the key gate and has
\* not been answered.
ExecuteInFlight(t) ==
  th[t].pc \in {"execute", "exec_select", "exec_wait", "exec_got", "exec_state"}

\* C40: the idle watchdog does not initiate the shutdown while an /execute
\* request that passed the key gate waits for its response.
C40_WatchdogSparesExecute ==
  [][WatchdogFires => \A t \in Threads : ~ExecuteInFlight(t)]_vars

====
